---- MODULE Spec2Model ----
(***************************************************************************)
(* Model of the confidence-gated dispatch engine of context-engine:       *)
(*   src/src/dispatcher/budget_api.py  (MockBudgetAPI, the JSON ledger)    *)
(*   src/src/dispatcher/actions.py     (ActionDispatcher)                  *)
(*                                                                         *)
(* Conventions.  Confidence scores are fixed-point thousandths (850 is     *)
(* 0.85).  Money is whole dollars.  Python None of an Optional[float] is   *)
(* NoneVal, Python None of a string is "None".  The timestamp,             *)
(* last_updated, description and project_id fields never influence control *)
(* flow and are left out of the records.                                   *)
(***************************************************************************)
EXTENDS Integers, Sequences, FiniteSets, TLC

(***************************************************************************)
(* Bounds of the exploration                                               *)
(***************************************************************************)
MaxDispatch == 2

(***************************************************************************)
(* Values                                                                  *)
(***************************************************************************)
NoneVal == -1

Min(a, b) == IF a <= b THEN a ELSE b

\* dict.get(key, default)
Get(d, key, default) == IF key \in DOMAIN d THEN d[key] ELSE default

\* class ActionType(str, Enum)
ActionType ==
    [UPDATE_BUDGET |-> "update_budget",
     FLAG_FOR_APPROVAL |-> "flag_for_approval",
     NOTIFY_STAKEHOLDER |-> "notify_stakeholder",
     CREATE_CHANGE_ORDER |-> "create_change_order"]

\* "{x:.2f}" of a score: thousandths rounded to hundredths
Fmt2(c) == (c + 5) \div 10

\* text of a reasoning string: which template produced it and the values it
\* prints (NoneVal where the template prints no such value)
Text(fmt, rationale, combined, claude, extraction) ==
    [fmt |-> fmt, rationale |-> rationale, combined |-> combined,
     claude |-> claude, extraction |-> extraction]

\* reasoning=None of PendingChange
NoText == Text("none", "None", NoneVal, NoneVal, NoneVal)

\* a rationale passed on as it is
PlainText(rationale) == Text("plain", rationale, NoneVal, NoneVal, NoneVal)

(***************************************************************************)
(* The ledger file                                                         *)
(***************************************************************************)
\* class PendingChange
PendingChange(asset_id, delta, reasoning) ==
    [asset_id |-> asset_id, delta |-> delta, status |-> "pending_approval",
     reasoning |-> reasoning]

\* class BudgetLineItem
BudgetLineItem(code, allocated, spent) ==
    [code |-> code, allocated |-> allocated, spent |-> spent,
     pending_changes |-> <<>>]

\* MockBudgetAPI._create_default_budget: the BudgetState it builds
default_budget ==
    [line_items |-> << BudgetLineItem("B47", 50000, 30000),
                       BudgetLineItem("B48", 75000, 45000) >>]

\* contents of budget_file: kind "ok" is a complete JSON document holding
\* state; "missing", "empty" (size 0) and "partial" hold no document
File(kind, state) == [kind |-> kind, state |-> state]
NoState == [line_items |-> <<>>]

\* I/O faults of one ledger call: none, open/json.load raises in
\* _load_budget, mkdir/open raises in _save_budget before the file is
\* truncated, json.dump raises after open(..., 'w') truncated the file
\* (nothing or part of the document written)
NoFault == "none"
Faults == {"none", "load", "open", "dump_empty", "dump_partial"}

\* MockBudgetAPI._load_budget raises
LoadRaises(f, fault) == f.kind # "ok" \/ fault = "load"

\* MockBudgetAPI._save_budget: the file afterwards and whether it raised
_save_budget(f, budget, fault) ==
    CASE fault = "open"         -> [file |-> f, raised |-> TRUE]
      [] fault = "dump_empty"   -> [file |-> File("empty", NoState), raised |-> TRUE]
      [] fault = "dump_partial" -> [file |-> File("partial", NoState), raised |-> TRUE]
      [] OTHER                  -> [file |-> File("ok", budget), raised |-> FALSE]

\* the loop "for item in budget.line_items: if item.code == code": index of
\* the first line item with that code, 0 for line_item = None
FindLineItem(budget, code) ==
    LET hits == {i \in 1..Len(budget.line_items) : budget.line_items[i].code = code}
    IN IF hits = {} THEN 0 ELSE CHOOSE i \in hits : \A j \in hits : i <= j

\* line_item.spent = delta
AddSpent_assign(budget, i, delta) ==
    [budget EXCEPT !.line_items[i].spent = delta]

\* line_item.spent += delta
AddSpent(budget, i, delta) ==
    [budget EXCEPT !.line_items[i].spent = @ + delta]

\* line_item.pending_changes.append(pending)
AppendPending(budget, i, pending) ==
    [budget EXCEPT !.line_items[i].pending_changes = Append(@, pending)]

\* MockBudgetAPI.update_budget: the file afterwards and the returned bool
update_budget(f, code, delta, asset_id, auto_approved, fault) ==
    IF LoadRaises(f, fault) THEN [file |-> f, ret |-> FALSE]
    ELSE LET budget == f.state
             i == FindLineItem(budget, code)
         IN IF i = 0 THEN [file |-> f, ret |-> FALSE]
            ELSE LET modified ==
                        IF auto_approved
                        THEN AddSpent(budget, i, delta)
                        ELSE AppendPending(budget, i,
                                 PendingChange(asset_id, delta, NoText))
                     saved == _save_budget(f, modified, fault)
                 IN [file |-> saved.file, ret |-> ~saved.raised]

\* MockBudgetAPI.flag_for_approval: the file afterwards and the returned bool
flag_for_approval(f, code, delta, asset_id, reasoning, fault) ==
    IF LoadRaises(f, fault) THEN [file |-> f, ret |-> FALSE]
    ELSE LET budget == f.state
             i == FindLineItem(budget, code)
         IN IF i = 0 THEN [file |-> f, ret |-> FALSE]
            ELSE LET modified == AppendPending(budget, i,
                                     PendingChange(asset_id, delta, reasoning))
                     saved == _save_budget(f, modified, fault)
                 IN [file |-> saved.file, ret |-> ~saved.raised]

(***************************************************************************)
(* The dispatcher                                                          *)
(***************************************************************************)
\* message of a DispatchResult: the template, the amount it prints (0 when
\* none) and the action type or exception it names ("" when none)
Message(text, amount, detail) ==
    [text |-> text, amount |-> amount, detail |-> detail]

\* one call of the ledger API made by dispatch, as the ledger saw it
ApiCall(api, code, delta, asset_id, ret) ==
    [api |-> api, code |-> code, delta |-> delta, asset_id |-> asset_id,
     ret |-> ret]

\* the extraction confidence left out of the gate
combined_confidence_claude_only(claude_confidence, extraction_confidence) ==
    claude_confidence

\* the confidence BaseDispatcher._should_auto_approve compares with the
\* threshold
combined_confidence(claude_confidence, extraction_confidence) ==
    IF extraction_confidence # NoneVal
    THEN Min(claude_confidence, extraction_confidence)
    ELSE claude_confidence

\* min(None, x) and None >= x raise TypeError
ShouldAutoApproveRaises(claude_confidence, extraction_confidence, requires_human) ==
    ~requires_human /\ claude_confidence = NoneVal

\* the threshold compared with > instead of >=
_should_auto_approve_strict(claude_confidence, extraction_confidence, requires_human, threshold) ==
    IF requires_human THEN FALSE
    ELSE combined_confidence(claude_confidence, extraction_confidence) > threshold

\* BaseDispatcher._should_auto_approve
_should_auto_approve(claude_confidence, extraction_confidence, requires_human, threshold) ==
    IF requires_human THEN FALSE
    ELSE combined_confidence(claude_confidence, extraction_confidence) >= threshold

\* ActionDispatcher._format_confidence_message followed by ": {reasoning}"
_format_confidence_message(claude_confidence, extraction_confidence, reasoning) ==
    IF extraction_confidence # NoneVal
    THEN Text("combined", reasoning,
              Fmt2(Min(claude_confidence, extraction_confidence)),
              Fmt2(claude_confidence), Fmt2(extraction_confidence))
    ELSE Text("single", reasoning, NoneVal, Fmt2(claude_confidence), NoneVal)

\* the flag read under a wrong key with default False
RequiresHuman_wrong_key(recommendation) ==
    Get(recommendation, "human_required", FALSE)

\* recommendation.get('requires_human', True)
RequiresHuman(recommendation) == Get(recommendation, "requires_human", TRUE)

\* the try block of ActionDispatcher.dispatch: the ledger file afterwards,
\* the DispatchResult, the ledger API calls it made and the exception that
\* left the block ("" when none)
dispatch_try(f, threshold, recommendation, asset_id, budget_code, cost_impact, extraction_confidence, fault) ==
    LET action_type == Get(recommendation, "action_type", "None")
        requires_human == RequiresHuman(recommendation)
        claude_confidence == Get(recommendation, "confidence_score", 0)
        reasoning == Get(recommendation, "reasoning", "No reasoning provided")
        result == [asset_id |-> asset_id,
                   action_type |-> action_type,
                   requires_human |-> requires_human,
                   claude_confidence |-> claude_confidence,
                   extraction_confidence |-> extraction_confidence,
                   reasoning |-> reasoning,
                   success |-> FALSE,
                   message |-> Message("", 0, "")]
    IN
    IF action_type = ActionType.UPDATE_BUDGET /\ ~requires_human
    THEN IF ShouldAutoApproveRaises(claude_confidence, extraction_confidence,
                                    requires_human)
         THEN [file |-> f, calls |-> <<>>, result |-> result,
               raised |-> "TypeError"]
         ELSE IF _should_auto_approve(claude_confidence, extraction_confidence,
                                      requires_human, threshold)
         THEN LET r == update_budget(f, budget_code, cost_impact, asset_id, TRUE, fault)
              IN [file |-> r.file,
                  calls |-> << ApiCall("update_budget", budget_code, cost_impact,
                                       asset_id, r.ret) >>,
                  result |-> IF r.ret
                             THEN [result EXCEPT !.success = TRUE,
                                      !.message = Message("Budget updated automatically",
                                                          cost_impact, "")]
                             ELSE [result EXCEPT
                                      !.message = Message("Failed to update budget", 0, "")],
                  raised |-> ""]
         ELSE LET r == flag_for_approval(f, budget_code, cost_impact, asset_id,
                           _format_confidence_message(claude_confidence,
                               extraction_confidence, reasoning), fault)
              IN [file |-> r.file,
                  calls |-> << ApiCall("flag_for_approval", budget_code, cost_impact,
                                       asset_id, r.ret) >>,
                  result |-> [result EXCEPT !.requires_human = TRUE,
                                 !.success = r.ret,
                                 !.message = Message(
                                     "Flagged for approval (confidence too low)", 0, "")],
                  raised |-> ""]
    ELSE IF action_type = ActionType.FLAG_FOR_APPROVAL \/ requires_human
    THEN LET r == flag_for_approval(f, budget_code, cost_impact, asset_id,
                      PlainText(reasoning), fault)
         IN [file |-> r.file,
             calls |-> << ApiCall("flag_for_approval", budget_code, cost_impact,
                                  asset_id, r.ret) >>,
             result |-> [result EXCEPT !.success = r.ret,
                            !.message = Message("Flagged for human approval", 0, "")],
             raised |-> ""]
    ELSE [file |-> f, calls |-> <<>>,
          result |-> [result EXCEPT
              !.message = Message("Unknown action type", 0, action_type)],
          raised |-> ""]

\* dispatch without the except clause: the exception leaves dispatch
ExceptException_missing(attempt) == attempt

\* the clause "except Exception as e" of ActionDispatcher.dispatch
ExceptException(attempt) ==
    IF attempt.raised # ""
    THEN [attempt EXCEPT !.result.success = FALSE,
             !.result.message = Message("Error dispatching action", 0, attempt.raised),
             !.raised = ""]
    ELSE attempt

\* ActionDispatcher.dispatch: the ledger file afterwards, the DispatchResult
\* returned, the ledger API calls made and the exception that propagates to
\* the caller ("" when none)
dispatch(f, threshold, recommendation, asset_id, budget_code, cost_impact, extraction_confidence, fault) ==
    ExceptException(dispatch_try(f, threshold, recommendation, asset_id,
                                 budget_code, cost_impact,
                                 extraction_confidence, fault))

(***************************************************************************)
(* Inputs                                                                  *)
(***************************************************************************)
Rationale == "Quantity increase is within normal parameters"

ActionTypes == {ActionType[k] : k \in DOMAIN ActionType}

ClaudeScores == {700, 950}
ExtractionScores == {NoneVal, 650, 920}
\* min_confidence_for_auto_approval: float = 0.85
DefaultThreshold == 850
Thresholds == {DefaultThreshold, 950}

Recommendation(action_type, requires_human, confidence_score) ==
    [action_type |-> action_type, requires_human |-> requires_human,
     confidence_score |-> confidence_score, reasoning |-> Rationale]

\* recommendation dictionaries with every key present
FullRecommendations ==
    { Recommendation(ActionType.UPDATE_BUDGET, h, c) :
          h \in BOOLEAN, c \in ClaudeScores }
    \cup { Recommendation(a, h, 950) :
          a \in ActionTypes \ {ActionType.UPDATE_BUDGET}, h \in BOOLEAN }

\* recommendation dictionaries that lack one key or carry None as
\* confidence_score
PartialRecommendations ==
    { [requires_human |-> h, confidence_score |-> 950,
       reasoning |-> Rationale] : h \in BOOLEAN }
    \cup { [action_type |-> ActionType.UPDATE_BUDGET, confidence_score |-> 950,
            reasoning |-> Rationale] }
    \cup { [action_type |-> ActionType.UPDATE_BUDGET, requires_human |-> FALSE,
            reasoning |-> Rationale] }
    \cup { Recommendation(ActionType.UPDATE_BUDGET, FALSE, NoneVal) }

\* the (recommendation, extraction_confidence) pairs dispatch is called with
Evaluations ==
    { <<r, e>> : r \in FullRecommendations, e \in ExtractionScores }
    \cup { <<r, NoneVal>> : r \in PartialRecommendations }
    \cup { <<Recommendation(ActionType.UPDATE_BUDGET, FALSE, NoneVal), 920>> }

\* a change: the asset, its budget line code and its cost impact; B99 is
\* not a line of the ledger
Change(asset_id, budget_code, cost_impact) ==
    [asset_id |-> asset_id, budget_code |-> budget_code,
     cost_impact |-> cost_impact]

Changes ==
    { Change("Wall_A", "B47", 1000), Change("Wall_B", "B47", -40),
      Change("Wall_A", "B48", 1000), Change("Wall_B", "B99", 1000) }

\* arguments of one dispatch call, with the I/O fault its ledger call meets
Args(recommendation, change, extraction_confidence, fault) ==
    [recommendation |-> recommendation, asset_id |-> change.asset_id,
     budget_code |-> change.budget_code, cost_impact |-> change.cost_impact,
     extraction_confidence |-> extraction_confidence, fault |-> fault]

\* the recommendations and changes dispatch_batch is run on
BatchRecommendations ==
    { Recommendation(ActionType.UPDATE_BUDGET, FALSE, c) :
          c \in ClaudeScores \cup {NoneVal} }
    \cup { Recommendation(ActionType.FLAG_FOR_APPROVAL, TRUE, 950),
            Recommendation(ActionType.NOTIFY_STAKEHOLDER, FALSE, 950) }

BatchChanges == Changes \ { Change("Wall_A", "B48", 1000) }

(***************************************************************************)
(* State                                                                   *)
(***************************************************************************)
VARIABLES
    budget_file,               \* the JSON file behind MockBudgetAPI
    min_confidence_threshold,  \* BaseDispatcher.min_confidence_threshold
    op,                        \* the call the dispatcher is in or returned from
    batch_len,                 \* len(recommendations) of the running batch
    batch_ec,                  \* extraction_confidences of the batch is a list
    inputs,                    \* arguments of the dispatches of the last call
    results,                   \* the DispatchResults of the last call, in order
    calls,                     \* ledger API calls of the last dispatch
    pre_file,                  \* budget_file when the last dispatch began
    batch_file,                \* budget_file when the last call began
    commits,                   \* successful auto-commits per asset and line
    n_dispatch,                \* dispatches made so far
    pc,                        \* per concurrent ledger call: its next step
    req,                       \* per concurrent ledger call: its arguments
    budget,                    \* per concurrent ledger call: its local 'budget'
    ret,                       \* per concurrent ledger call: the returned bool
    before_blueprint,          \* assets of the 'before' of the last comparison
    after_blueprint,           \* assets of the 'after' of the last comparison
    changes,                   \* what the last compare_blueprints returned
    differ_op,                 \* compare_blueprints: idle, returned or raised
    graph,                     \* the rows the Neo4j graph holds, one per object
    delta_args,                \* arguments of the last calculate_delta
    delta_result,              \* what the last calculate_delta returned or raised
    resolver_op,               \* calculate_delta: idle, returned or raised
    claude_request,            \* what the last messages.create met: the content
                               \* blocks of the response, or the API's failure
    claude_result,             \* what the last reason_about_change returned or raised
    api_calls,                 \* calls of messages.create so far
    gateway_op,                \* reason_about_change: idle, returned or raised
    pipeline_pc,               \* run_pipeline.main: idle, in the loop over the
                               \* modified or the added assets, done (0), failed (1)
    pipeline_i,                \* iterations of the running loop so far
    pipeline_results,          \* the list 'results' of main
    pipeline_trace,            \* per iteration begun: the change and how far it got
    ledger_instances,          \* MockBudgetAPI objects constructed on budget_file
    ledger_hist,               \* the constructions and the ledger and approval
                               \* calls of the single caller so far, in order
    init_pc,                   \* a MockBudgetAPI constructed while ledger calls
                               \* run: the next step of its __init__
    briefcases,                \* per briefcase of the last batch_reason: what
                               \* its messages.create met
    recommendations,           \* the list the last batch_reason returned
    dispatched,                \* the dispatches of that list's entries so far
    reasoner_op                \* batch_reason: idle or returned

\* the state of the single caller's dispatcher calls
dispatcherVars == <<min_confidence_threshold, op, batch_len, batch_ec, inputs,
                    results, calls, pre_file, batch_file, commits,
                    n_dispatch>>

\* the state of the concurrent ledger calls
callVars == <<pc, req, budget, ret>>

\* the state of the blueprint comparison
differVars == <<before_blueprint, after_blueprint, changes, differ_op>>

\* the state of the components around the dispatcher
\* the state of the graph queries
resolverVars == <<graph, delta_args, delta_result, resolver_op>>

\* the state of the Claude client
gatewayVars == <<claude_request, claude_result, api_calls, gateway_op>>

\* the state of a pipeline run
pipelineVars == <<pipeline_pc, pipeline_i, pipeline_results, pipeline_trace>>

\* the state of the caller that works on the ledger directly
clientVars == <<ledger_instances, ledger_hist, init_pc>>

\* the state of a batch_reason call and of the dispatches of what it returned
reasonerVars == <<briefcases, recommendations, dispatched, reasoner_op>>

componentVars == <<differVars, resolverVars, gatewayVars, pipelineVars,
                   clientVars, reasonerVars>>

vars == <<budget_file, dispatcherVars, callVars, componentVars>>

\* the concurrent callers of the ledger API
Procs == {1, 2}

\* arguments of one ledger API call
Request(api, code, delta, asset_id) ==
    [api |-> api, code |-> code, delta |-> delta, asset_id |-> asset_id]

NoRequest == Request("none", "None", 0, "None")

\* no ledger call is running
NoCalls ==
    /\ pc = [p \in Procs |-> "idle"]
    /\ req = [p \in Procs |-> NoRequest]
    /\ budget = [p \in Procs |-> NoState]
    /\ ret = [p \in Procs |-> FALSE]

ChangeKeys == {<<c.asset_id, c.budget_code>> : c \in Changes}

\* commits after a dispatch that made the calls cs
Committed(cm, cs) ==
    IF /\ cs # <<>>
       /\ cs[1].api = "update_budget"
       /\ cs[1].ret
    THEN [cm EXCEPT ![<<cs[1].asset_id, cs[1].code>>] = @ + 1]
    ELSE cm

\* no blueprints were compared yet
DifferIdle ==
    /\ before_blueprint = <<>>
    /\ after_blueprint = <<>>
    /\ changes = [added |-> <<>>, removed |-> <<>>, modified |-> <<>>,
                  summary |-> [added_count |-> 0, removed_count |-> 0,
                               modified_count |-> 0]]
    /\ differ_op = "idle"

\* the graph is empty and was not queried yet
ResolverIdle ==
    /\ graph = {}
    /\ delta_args = [object_id |-> "None", new_quantity |-> 0,
                     new_material |-> "None", fault |-> "none"]
    /\ delta_result = [raised |-> "", delta |-> [exists |-> FALSE]]
    /\ resolver_op = "idle"

\* ClaudeClient(api_key) before its first request
GatewayIdle ==
    /\ claude_request = [content |-> <<>>, fault |-> "none"]
    /\ claude_result = [raised |-> "", is_none |-> TRUE]
    /\ api_calls = 0
    /\ gateway_op = "idle"

\* main was not called yet
PipelineIdle ==
    /\ pipeline_pc = "idle"
    /\ pipeline_i = 0
    /\ pipeline_results = <<>>
    /\ pipeline_trace = <<>>

\* no call was made on the ledger directly
ClientIdle ==
    /\ ledger_instances = 0
    /\ ledger_hist = <<>>
    /\ init_pc = "idle"

\* batch_reason was not called yet
ReasonerIdle ==
    /\ briefcases = <<>>
    /\ recommendations = <<>>
    /\ dispatched = <<>>
    /\ reasoner_op = "idle"

\* no component around the dispatcher has run yet
ComponentsIdle ==
    /\ DifferIdle /\ ResolverIdle /\ GatewayIdle /\ PipelineIdle
    /\ ClientIdle /\ ReasonerIdle

\* MockBudgetAPI(budget_file_path) on a file that does not exist yet, and an
\* ActionDispatcher on it
Init ==
    /\ budget_file = File("ok", default_budget)
    /\ min_confidence_threshold \in Thresholds
    /\ op = "init"
    /\ batch_len = 0
    /\ batch_ec = FALSE
    /\ inputs = <<>>
    /\ results = <<>>
    /\ calls = <<>>
    /\ pre_file = budget_file
    /\ batch_file = budget_file
    /\ commits = [k \in ChangeKeys |-> 0]
    /\ n_dispatch = 0
    /\ NoCalls
    /\ ComponentsIdle

\* one call of ActionDispatcher.dispatch by the caller
Dispatch(EvaluationSet, ChangeSet, FaultSet) ==
    /\ op \notin {"batch", "raised"}
    /\ n_dispatch < MaxDispatch
    /\ \E ev \in EvaluationSet, ch \in ChangeSet, fault \in FaultSet :
         LET rec == ev[1]
             ec == ev[2]
             d == dispatch(budget_file, min_confidence_threshold, rec,
                           ch.asset_id, ch.budget_code, ch.cost_impact, ec, fault)
         IN /\ budget_file' = d.file
            /\ results' = IF d.raised = "" THEN << d.result >> ELSE <<>>
            /\ op' = IF d.raised = "" THEN "dispatch" ELSE "raised"
            /\ calls' = d.calls
            /\ inputs' = << Args(rec, ch, ec, fault) >>
            /\ commits' = Committed(commits, d.calls)
    /\ pre_file' = budget_file
    /\ batch_file' = budget_file
    /\ batch_len' = 0
    /\ batch_ec' = FALSE
    /\ n_dispatch' = n_dispatch + 1
    /\ UNCHANGED <<min_confidence_threshold, callVars, componentVars>>

\* ActionDispatcher.dispatch_batch is called with parallel lists of n entries
DispatchBatchBegin ==
    /\ op \notin {"batch", "raised"}
    /\ \E n \in 0..(MaxDispatch - n_dispatch) : batch_len' = n
    /\ batch_ec' \in BOOLEAN
    /\ op' = "batch"
    /\ inputs' = <<>>
    /\ results' = <<>>
    /\ calls' = <<>>
    /\ pre_file' = budget_file
    /\ batch_file' = budget_file
    /\ UNCHANGED <<budget_file, min_confidence_threshold, commits, n_dispatch,
                   callVars, componentVars>>

\* entries of extraction_confidences: [None] * len(recommendations) when the
\* argument is None, the caller's scores otherwise
BatchExtraction(is_list) ==
    IF is_list THEN ExtractionScores \ {NoneVal} ELSE {NoneVal}

\* one iteration of the loop over zip(...): dispatch and results.append; an
\* exception of dispatch leaves dispatch_batch
DispatchBatchStep(FaultSet) ==
    /\ op = "batch"
    /\ Len(results) < batch_len
    /\ \E rec \in BatchRecommendations, ch \in BatchChanges,
          ec \in BatchExtraction(batch_ec), fault \in FaultSet :
         LET d == dispatch(budget_file, min_confidence_threshold, rec,
                           ch.asset_id, ch.budget_code, ch.cost_impact, ec, fault)
         IN /\ budget_file' = d.file
            /\ results' = IF d.raised = "" THEN Append(results, d.result) ELSE results
            /\ op' = IF d.raised = "" THEN "batch" ELSE "raised"
            /\ calls' = d.calls
            /\ inputs' = Append(inputs, Args(rec, ch, ec, fault))
            /\ commits' = Committed(commits, d.calls)
    /\ pre_file' = budget_file
    /\ n_dispatch' = n_dispatch + 1
    /\ UNCHANGED <<min_confidence_threshold, batch_len, batch_ec, batch_file,
                   callVars, componentVars>>

\* the loop is exhausted: return results
DispatchBatchReturn ==
    /\ op = "batch"
    /\ Len(results) = batch_len
    /\ op' = "batch_returned"
    /\ UNCHANGED <<budget_file, min_confidence_threshold, batch_len, batch_ec,
                   batch_file, inputs, results, calls, pre_file, commits,
                   n_dispatch, callVars, componentVars>>

Next ==
    \/ Dispatch(Evaluations, Changes, {NoFault})
    \/ DispatchBatchBegin
    \/ DispatchBatchStep({NoFault})
    \/ DispatchBatchReturn

Spec == Init /\ [][Next]_vars

\* the calls dispatch is run on when ledger I/O may fail
FaultEvaluations ==
    { <<Recommendation(ActionType.UPDATE_BUDGET, FALSE, 950), NoneVal>>,
      <<Recommendation(ActionType.UPDATE_BUDGET, FALSE, 700), 920>>,
      <<Recommendation(ActionType.FLAG_FOR_APPROVAL, TRUE, 950), NoneVal>>,
      <<Recommendation(ActionType.NOTIFY_STAKEHOLDER, FALSE, 950), NoneVal>> }

FaultChanges == { Change("Wall_A", "B47", 1000), Change("Wall_B", "B99", 1000) }

\* the dispatcher on a ledger file whose reads and writes may fail
NextFault == Dispatch(FaultEvaluations, FaultChanges, Faults)

SpecFault == Init /\ [][NextFault]_vars

(***************************************************************************)
(* Concurrent ledger calls: update_budget and flag_for_approval step by    *)
(* step, each step one access to the file                                  *)
(***************************************************************************)
\* the ledger calls that run concurrently, auto-approved updates and flags:
\* those of the first caller ...
FirstRequests ==
    { Request("update_budget", "B47", 100, "Wall_A"),
      Request("flag_for_approval", "B47", 100, "Wall_A") }

\* ... and those of the second caller
SecondRequests ==
    { Request("update_budget", "B47", -40, "Wall_B"),
      Request("flag_for_approval", "B47", -40, "Wall_B"),
      Request("update_budget", "B48", -40, "Wall_B"),
      Request("flag_for_approval", "B48", -40, "Wall_B") }

\* number of pending records of a document: documents of this model with
\* the same number of records have the same length as JSON text, and one
\* with more records is longer
PendingCount(b) ==
    LET RECURSIVE Sum(_)
        Sum(i) == IF i = 0 THEN 0
                  ELSE Len(b.line_items[i].pending_changes) + Sum(i - 1)
    IN Sum(Len(b.line_items))

\* the file after json.dump(document) and close on a handle opened with
\* 'w' before: the write starts at offset 0 and does not truncate again, so
\* text another writer stored meanwhile survives beyond the end of document
Dumped(f, document) ==
    IF f.kind \in {"ok", "partial"} /\ PendingCount(document) < PendingCount(f.state)
    THEN File("partial", f.state)
    ELSE File("ok", document)

\* two callers are about to enter the ledger API on the ledger created by
\* MockBudgetAPI(budget_file_path)
InitConcurrent ==
    /\ budget_file = File("ok", default_budget)
    /\ min_confidence_threshold = DefaultThreshold
    /\ op = "init"
    /\ batch_len = 0
    /\ batch_ec = FALSE
    /\ inputs = <<>>
    /\ results = <<>>
    /\ calls = <<>>
    /\ pre_file = budget_file
    /\ batch_file = budget_file
    /\ commits = [k \in ChangeKeys |-> 0]
    /\ n_dispatch = 0
    /\ pc = [p \in Procs |-> "load"]
    /\ req \in {r \in [Procs -> FirstRequests \cup SecondRequests] :
                    r[1] \in FirstRequests /\ r[2] \in SecondRequests}
    /\ budget = [p \in Procs |-> NoState]
    /\ ret = [p \in Procs |-> FALSE]
    /\ ComponentsIdle

\* budget = self._load_budget()
Load(p) ==
    /\ pc[p] = "load"
    /\ IF LoadRaises(budget_file, NoFault)
       THEN /\ pc' = [pc EXCEPT ![p] = "done"]
            /\ ret' = [ret EXCEPT ![p] = FALSE]
            /\ UNCHANGED budget
       ELSE /\ pc' = [pc EXCEPT ![p] = "modify"]
            /\ budget' = [budget EXCEPT ![p] = budget_file.state]
            /\ UNCHANGED ret
    /\ UNCHANGED <<budget_file, req, dispatcherVars, componentVars>>

\* find the line item and change it in the local budget
Modify(p) ==
    /\ pc[p] = "modify"
    /\ LET i == FindLineItem(budget[p], req[p].code)
       IN IF i = 0
          THEN /\ pc' = [pc EXCEPT ![p] = "done"]
               /\ ret' = [ret EXCEPT ![p] = FALSE]
               /\ UNCHANGED budget
          ELSE /\ pc' = [pc EXCEPT ![p] = "open"]
               /\ budget' = [budget EXCEPT ![p] =
                      IF req[p].api = "update_budget"
                      THEN AddSpent(@, i, req[p].delta)
                      ELSE AppendPending(@, i,
                               PendingChange(req[p].asset_id, req[p].delta,
                                             PlainText(Rationale)))]
               /\ UNCHANGED ret
    /\ UNCHANGED <<budget_file, req, dispatcherVars, componentVars>>

\* _save_budget: open(self.budget_file, 'w') truncates the file
OpenForWrite(p) ==
    /\ pc[p] = "open"
    /\ budget_file' = File("empty", NoState)
    /\ pc' = [pc EXCEPT ![p] = "dump"]
    /\ UNCHANGED <<req, budget, ret, dispatcherVars, componentVars>>

\* _save_budget: json.dump and close; return True
Dump(p) ==
    /\ pc[p] = "dump"
    /\ budget_file' = Dumped(budget_file, budget[p])
    /\ pc' = [pc EXCEPT ![p] = "done"]
    /\ ret' = [ret EXCEPT ![p] = TRUE]
    /\ UNCHANGED <<req, budget, dispatcherVars, componentVars>>

NextConcurrent ==
    \E p \in Procs : Load(p) \/ Modify(p) \/ OpenForWrite(p) \/ Dump(p)

SpecConcurrent == InitConcurrent /\ [][NextConcurrent]_vars

(***************************************************************************)
(* Properties of the dispatcher                                            *)
(***************************************************************************)
\* the codes of the ledger's line items
LedgerCodes == {"B47", "B48"}

LineItemOf(f, code) ==
    LET b == f.state
    IN b.line_items[CHOOSE i \in 1..Len(b.line_items) : b.line_items[i].code = code]

Spent(f, code) == LineItemOf(f, code).spent
Allocated(f, code) == LineItemOf(f, code).allocated
Pending(f, code) == LineItemOf(f, code).pending_changes

\* a dispatch has returned; LastIn and LastOut are its arguments and result
Dispatched == results # <<>> /\ Len(inputs) = Len(results)
LastIn == inputs[Len(inputs)]
LastOut == results[Len(results)]

\* the recommendation says requires_human: true / false
SaysHuman(in) ==
    /\ "requires_human" \in DOMAIN in.recommendation
    /\ in.recommendation.requires_human
SaysNoHuman(in) ==
    /\ "requires_human" \in DOMAIN in.recommendation
    /\ ~in.recommendation.requires_human

\* the recommendation's action_type, "None" when it has none
SaysAction(in) ==
    IF "action_type" \in DOMAIN in.recommendation
    THEN in.recommendation.action_type ELSE "None"

\* Claude's score when the recommendation gives one, NoneVal otherwise
GivenScore(in) ==
    IF "confidence_score" \in DOMAIN in.recommendation
    THEN in.recommendation.confidence_score ELSE NoneVal

\* the last dispatch left every spent amount as it was / changed one
SpentUnchanged ==
    /\ budget_file.kind = "ok"
    /\ \A code \in LedgerCodes : Spent(budget_file, code) = Spent(pre_file, code)
NoUpdateCall == \A i \in 1..Len(calls) : calls[i].api # "update_budget"
SpentUpdated ==
    /\ LastIn.budget_code \in LedgerCodes
    /\ Spent(budget_file, LastIn.budget_code)
          = Spent(pre_file, LastIn.budget_code) + LastIn.cost_impact
    /\ \E i \in 1..Len(calls) : calls[i].api = "update_budget" /\ calls[i].ret

\* C2: a dispatch of a recommendation with requires_human true changes no
\* spent amount and issues no budget update, whatever the action type, the
\* confidences and the threshold
C2_HumanRequiredNeverCommits ==
    (Dispatched /\ SaysHuman(LastIn)) => (SpentUnchanged /\ NoUpdateCall)

\* update_budget recommended with 0.95 / 0.92 at threshold 0.85 and
\* requires_human true: queued, not committed
C2_Witness ==
    /\ Dispatched
    /\ SaysHuman(LastIn)
    /\ SaysAction(LastIn) = "update_budget"
    /\ GivenScore(LastIn) = 950
    /\ LastIn.extraction_confidence = 920
    /\ min_confidence_threshold = 850
    /\ LastIn.budget_code = "B47"
    /\ LastOut.success
    /\ Len(Pending(budget_file, "B47")) = Len(Pending(pre_file, "B47")) + 1

\* C3: a given score below the threshold (Claude's or the extraction's)
\* forbids a spent update; for an update_budget recommendation without
\* requires_human on a ledger line, spent is updated exactly when
\* min(claude, extraction) >= threshold, or claude >= threshold when the
\* extraction confidence is None
C3_GateUsesMinimum ==
    Dispatched =>
      LET cc == GivenScore(LastIn)
          ec == LastIn.extraction_confidence
          thr == min_confidence_threshold
      IN /\ ( \/ (cc # NoneVal /\ cc < thr)
              \/ (ec # NoneVal /\ ec < thr) ) => (SpentUnchanged /\ NoUpdateCall)
         /\ ( /\ SaysAction(LastIn) = "update_budget"
              /\ SaysNoHuman(LastIn)
              /\ cc # NoneVal
              /\ LastIn.budget_code \in LedgerCodes )
            => ( SpentUpdated <=>
                   IF ec = NoneVal THEN cc >= thr
                   ELSE (cc >= thr /\ ec >= thr) )

\* Claude 0.95, extraction 0.65, threshold 0.85: a pending approval
C3_Witness ==
    /\ Dispatched
    /\ SaysAction(LastIn) = "update_budget"
    /\ SaysNoHuman(LastIn)
    /\ GivenScore(LastIn) = 950
    /\ LastIn.extraction_confidence = 650
    /\ min_confidence_threshold = 850
    /\ LastIn.budget_code = "B47"
    /\ LastOut.requires_human
    /\ SpentUnchanged
    /\ Len(Pending(budget_file, "B47")) = Len(Pending(pre_file, "B47")) + 1

\* C4: on a line code of the ledger, dispatch updates spent if and only if
\* the action is update_budget, requires_human is false and the combined
\* confidence reaches the threshold; at threshold 0.85 without extraction
\* confidence 0.95 commits with success and 0.70 is flagged with
\* requires_human true in the result
C4_AutoCommitIff ==
    (Dispatched /\ LastIn.budget_code \in LedgerCodes) =>
      LET cc == GivenScore(LastIn)
          ec == LastIn.extraction_confidence
          thr == min_confidence_threshold
          plain == /\ SaysAction(LastIn) = "update_budget"
                   /\ SaysNoHuman(LastIn)
                   /\ ec = NoneVal
                   /\ thr = 850
      IN /\ SpentUpdated <=>
              /\ SaysAction(LastIn) = "update_budget"
              /\ SaysNoHuman(LastIn)
              /\ cc # NoneVal
              /\ Min(cc, IF ec = NoneVal THEN cc ELSE ec) >= thr
         /\ ~SpentUpdated => SpentUnchanged
         /\ (plain /\ cc = 950) => (SpentUpdated /\ LastOut.success)
         /\ (plain /\ cc = 700) => (SpentUnchanged /\ LastOut.requires_human)

\* a combined confidence equal to the threshold commits
C4_Witness ==
    /\ Dispatched
    /\ SaysAction(LastIn) = "update_budget"
    /\ SaysNoHuman(LastIn)
    /\ GivenScore(LastIn) = min_confidence_threshold
    /\ LastIn.extraction_confidence = NoneVal
    /\ LastIn.budget_code = "B47"
    /\ SpentUpdated
    /\ LastOut.success

\* the last dispatch was a successful auto-commit
AutoCommitted ==
    /\ Dispatched
    /\ LastOut.success
    /\ LastOut.action_type = "update_budget"
    /\ ~LastOut.requires_human

\* C5: a successful auto-commit of cost impact d on line c adds d to
\* spent(c) once and leaves allocated(c), the queue of c and every other
\* line item as they were (B47: 30000 + 1000 = 31000)
C5_CommitFrame ==
    AutoCommitted =>
      /\ budget_file.kind = "ok"
      /\ LastIn.budget_code \in LedgerCodes
      /\ Len(budget_file.state.line_items) = Len(pre_file.state.line_items)
      /\ \A code \in LedgerCodes :
           /\ Spent(budget_file, code) = Spent(pre_file, code)
                + (IF code = LastIn.budget_code THEN LastIn.cost_impact ELSE 0)
           /\ Allocated(budget_file, code) = Allocated(pre_file, code)
           /\ Pending(budget_file, code) = Pending(pre_file, code)
      /\ ( /\ pre_file = File("ok", default_budget)
           /\ LastIn.budget_code = "B47"
           /\ LastIn.cost_impact = 1000 ) => Spent(budget_file, "B47") = 31000

\* the commit of 1000 on B47 of the default budget
C5_Witness ==
    /\ AutoCommitted
    /\ pre_file = File("ok", default_budget)
    /\ LastIn.budget_code = "B47"
    /\ LastIn.cost_impact = 1000
    /\ Spent(budget_file, "B47") = 31000
    /\ Spent(budget_file, "B48") = 45000

\* C6: when the ledger call of a dispatch fails (unknown line code, or the
\* load or the save of the file raises) the result has success False and
\* the ledger file is as it was before the call
C6_FailedWriteLeavesLedger ==
    (Dispatched /\ \E i \in 1..Len(calls) : ~calls[i].ret)
        => (~LastOut.success /\ budget_file = pre_file)

\* C7: a recommendation whose action_type is neither update_budget nor
\* flag_for_approval (or is missing) ends with success False and without
\* any ledger call or change, whatever requires_human says
C7_UnsupportedActionIsError ==
    (Dispatched /\ SaysAction(LastIn) \notin {"update_budget", "flag_for_approval"})
        => (~LastOut.success /\ calls = <<>> /\ budget_file = pre_file)

\* what the arguments of a dispatch ask for on a ledger line: a commit ...
AsksCommit(in, thr) ==
    /\ in.budget_code \in LedgerCodes
    /\ SaysAction(in) = "update_budget"
    /\ SaysNoHuman(in)
    /\ GivenScore(in) # NoneVal
    /\ GivenScore(in) >= thr
    /\ in.extraction_confidence # NoneVal => in.extraction_confidence >= thr

\* ... or a pending approval
AsksFlag(in, thr) ==
    /\ in.budget_code \in LedgerCodes
    /\ \/ SaysHuman(in)
       \/ SaysAction(in) = "flag_for_approval"
       \/ /\ SaysAction(in) = "update_budget"
          /\ GivenScore(in) # NoneVal
          /\ \/ GivenScore(in) < thr
             \/ /\ in.extraction_confidence # NoneVal
                /\ in.extraction_confidence < thr

\* sum of the cost impacts of the first n inputs that ask for a commit on code
CommitSum(code, n) ==
    LET RECURSIVE Sum(_)
        Sum(i) == IF i = 0 THEN 0
                  ELSE Sum(i - 1) +
                       (IF inputs[i].budget_code = code
                           /\ AsksCommit(inputs[i], min_confidence_threshold)
                        THEN inputs[i].cost_impact ELSE 0)
    IN Sum(n)

\* number of the inputs that ask for a pending approval on code
FlagCount(code) ==
    Cardinality({i \in 1..Len(inputs) :
                    /\ inputs[i].budget_code = code
                    /\ AsksFlag(inputs[i], min_confidence_threshold)})

C9_PendingCarriesBothScores ==
    (Dispatched /\ AsksFlag(LastIn, min_confidence_threshold)) =>
      LET code == LastIn.budget_code
          queue == Pending(budget_file, code)
          record == queue[Len(queue)]
      IN /\ Len(queue) = Len(Pending(pre_file, code)) + 1
         /\ SubSeq(queue, 1, Len(queue) - 1) = Pending(pre_file, code)
         /\ record.asset_id = LastIn.asset_id
         /\ record.reasoning.rationale = LastOut.reasoning
         /\ record.reasoning.claude # NoneVal
         /\ GivenScore(LastIn) # NoneVal
              => record.reasoning.claude * 10 = GivenScore(LastIn)
         /\ LastIn.extraction_confidence # NoneVal
              => record.reasoning.extraction * 10 = LastIn.extraction_confidence

\* number of pending records of an asset on a line
PendingOf(asset_id, code) ==
    Cardinality({i \in 1..Len(Pending(budget_file, code)) :
                    Pending(budget_file, code)[i].asset_id = asset_id})

\* C10: a change (an asset on a line code) has at most one outcome in the
\* ledger: at most one commit of its cost impact or one pending record,
\* never two and never both
C10_AtMostOneOutcome ==
    \A k \in ChangeKeys :
        k[2] \in LedgerCodes => commits[k] + PendingOf(k[1], k[2]) <= 1

(***************************************************************************)
(* Properties of concurrent ledger calls                                   *)
(***************************************************************************)
\* sum of the deltas of the concurrent update_budget calls on code
UpdateSum(code) ==
    LET d(p) == IF req[p].api = "update_budget" /\ req[p].code = code
                THEN req[p].delta ELSE 0
    IN d(1) + d(2)

\* the flag_for_approval calls on code
Flaggers(code) ==
    {p \in Procs : req[p].api = "flag_for_approval" /\ req[p].code = code}

\* C1: once two concurrent ledger calls on the same line code have both
\* finished, the ledger holds both effects: spent is the initial amount
\* plus the deltas of the updates (+100 and -40: initial + 60) and the
\* queue holds one pending record per flag
C1_NoLostUpdate ==
    ( /\ \A p \in Procs : pc[p] = "done"
      /\ req[1].code = req[2].code )
    => LET code == req[1].code
       IN /\ budget_file.kind = "ok"
          /\ Spent(budget_file, code)
                = Spent(File("ok", default_budget), code) + UpdateSum(code)
          /\ Len(Pending(budget_file, code)) = Cardinality(Flaggers(code))
          /\ \A p \in Flaggers(code) :
                \E i \in 1..Len(Pending(budget_file, code)) :
                    /\ Pending(budget_file, code)[i].asset_id = req[p].asset_id
                    /\ Pending(budget_file, code)[i].delta = req[p].delta

(***************************************************************************)
(* Blueprint comparison: BlueprintParser.compare_blueprints                *)
(***************************************************************************)
\* most assets of one blueprint
MaxAssets == 2

\* Optional[Dict[str, float]]: None, or the dict as its set of items
NoDimensions == [is_none |-> TRUE, items |-> {}]
Dimensions(items) == [is_none |-> FALSE, items |-> items]

\* class BlueprintAsset; confidence_score in thousandths
BlueprintAsset(id, type, material, quantity, unit, floor, dimensions, confidence_score) ==
    [id |-> id, type |-> type, material |-> material, quantity |-> quantity,
     unit |-> unit, floor |-> floor, dimensions |-> dimensions,
     confidence_score |-> confidence_score]

\* Wall_A of the 'before' blueprint of the tests
Wall_A == BlueprintAsset("Wall_A", "Wall", "Concrete", 400, "sqft", "Floor_1", NoDimensions, 1000)

\* the asset records the blueprints are made of: Wall_A, Wall_A with one
\* field changed, and a second asset
Assets ==
    { Wall_A,
      [Wall_A EXCEPT !.quantity = 500],
      [Wall_A EXCEPT !.material = "Steel"],
      [Wall_A EXCEPT !.type = "Beam"],
      [Wall_A EXCEPT !.dimensions = Dimensions({<<"length", 20>>})],
      [Wall_A EXCEPT !.unit = "sqm"],
      [Wall_A EXCEPT !.floor = "Floor_2"],
      [Wall_A EXCEPT !.confidence_score = 800],
      BlueprintAsset("HVAC_Unit_1", "HVAC", "Steel", 1, "unit", "Floor_1", NoDimensions, 1000) }

\* BlueprintData.assets: a list of assets, nothing validates the ids
AssetLists == UNION { [1..n -> Assets] : n \in 0..MaxAssets }

\* the assets collected in a list instead of a dict: nothing is replaced
DictSetItem_append(d, asset) == Append(d, asset)

\* d[asset.id] = asset on a dict kept as its values in insertion order: a
\* key already there keeps its place and gets the new value
DictSetItem(d, asset) ==
    IF \E i \in 1..Len(d) : d[i].id = asset.id
    THEN [i \in 1..Len(d) |-> IF d[i].id = asset.id THEN asset ELSE d[i]]
    ELSE Append(d, asset)

\* {asset.id: asset for asset in assets[:n]}
RECURSIVE AssetsByIdUpTo(_, _)
AssetsByIdUpTo(assets, n) ==
    IF n = 0 THEN <<>> ELSE DictSetItem(AssetsByIdUpTo(assets, n - 1), assets[n])

\* {asset.id: asset for asset in assets}
AssetsById(assets) == AssetsByIdUpTo(assets, Len(assets))

\* asset_id in d
HasKey(d, asset_id) == \E i \in 1..Len(d) : d[i].id = asset_id

\* d[asset_id]
Lookup(d, asset_id) == d[CHOOSE i \in 1..Len(d) : d[i].id = asset_id]

\* asset.dict()
AssetDict(asset) ==
    [id |-> asset.id, type |-> asset.type, material |-> asset.material,
     quantity |-> asset.quantity, unit |-> asset.unit, floor |-> asset.floor,
     dimensions |-> asset.dimensions, confidence_score |-> asset.confidence_score]

\* _assets_differ comparing every field of the two records
_assets_differ_any_field(before, after) == before # after

\* BlueprintParser._assets_differ
_assets_differ(before, after) ==
    \/ before.quantity # after.quantity
    \/ before.material # after.material
    \/ before.type # after.type
    \/ before.dimensions # after.dimensions

\* the dict 'changes' of _get_asset_changes as its items, an absent key as
\* absent: "none"
FieldChange(present, before, after) ==
    [present |-> present, before |-> before, after |-> after]

\* _get_asset_changes with the delta taken the other way round
_get_asset_changes_reversed(before, after) ==
    [quantity |-> [present |-> before.quantity # after.quantity,
                   before |-> before.quantity, after |-> after.quantity,
                   delta |-> before.quantity - after.quantity],
     material |-> FieldChange(before.material # after.material, before.material, after.material),
     type |-> FieldChange(before.type # after.type, before.type, after.type),
     dimensions |-> FieldChange(before.dimensions # after.dimensions, before.dimensions, after.dimensions)]

\* BlueprintParser._get_asset_changes: per key whether the dict has it, and
\* the entry it then maps to
_get_asset_changes(before, after) ==
    [quantity |-> [present |-> before.quantity # after.quantity,
                   before |-> before.quantity, after |-> after.quantity,
                   delta |-> after.quantity - before.quantity],
     material |-> FieldChange(before.material # after.material, before.material, after.material),
     type |-> FieldChange(before.type # after.type, before.type, after.type),
     dimensions |-> FieldChange(before.dimensions # after.dimensions, before.dimensions, after.dimensions)]

\* one entry of 'modified'
ModifiedEntry(before_asset, after_asset) ==
    [asset_id |-> after_asset.id, before |-> before_asset, after |-> after_asset,
     changes |-> _get_asset_changes(before_asset, after_asset)]

\* BlueprintParser.compare_blueprints on the asset lists of the two
\* blueprints: the dict it returns
compare_blueprints(before, after) ==
    LET before_assets == AssetsById(before)
        after_assets == AssetsById(after)
        IsAdded(asset) == ~HasKey(before_assets, asset.id)
        IsRemoved(asset) == ~HasKey(after_assets, asset.id)
        IsModified(asset) ==
            /\ HasKey(before_assets, asset.id)
            /\ _assets_differ(Lookup(before_assets, asset.id), asset)
        added == SelectSeq(after_assets, IsAdded)
        removed == SelectSeq(before_assets, IsRemoved)
        differing == SelectSeq(after_assets, IsModified)
        modified == [i \in 1..Len(differing) |->
                        ModifiedEntry(Lookup(before_assets, differing[i].id), differing[i])]
    IN [added |-> [i \in 1..Len(added) |-> AssetDict(added[i])],
        removed |-> [i \in 1..Len(removed) |-> AssetDict(removed[i])],
        modified |-> modified,
        summary |-> [added_count |-> Len(added), removed_count |-> Len(removed),
                     modified_count |-> Len(modified)]]

\* the call of compare_blueprints on two parsed blueprints; no statement of
\* it raises
CompareBlueprints ==
    /\ differ_op = "idle"
    /\ \E before \in AssetLists, after \in AssetLists :
         /\ before_blueprint' = before
         /\ after_blueprint' = after
         /\ changes' = compare_blueprints(before, after)
    /\ differ_op' = "returned"
    /\ UNCHANGED <<budget_file, dispatcherVars, callVars, clientVars, reasonerVars, resolverVars, gatewayVars, pipelineVars>>

InitDiff == Init /\ min_confidence_threshold = DefaultThreshold

NextDiff == CompareBlueprints

SpecDiff == InitDiff /\ [][NextDiff]_vars

(***************************************************************************)
(* Properties of the blueprint comparison                                  *)
(***************************************************************************)
\* the ids of a list of assets
Ids(assets) == {assets[i].id : i \in 1..Len(assets)}

\* the elements of a list
Range(s) == {s[i] : i \in 1..Len(s)}

\* no id occurs twice in the list
UniqueIds(assets) ==
    \A i, j \in 1..Len(assets) : assets[i].id = assets[j].id => i = j

\* the record of the id in a list
RecordOf(assets, id) == assets[CHOOSE i \in 1..Len(assets) : assets[i].id = id]

AddedIds == {changes.added[i].id : i \in 1..Len(changes.added)}
RemovedIds == {changes.removed[i].id : i \in 1..Len(changes.removed)}
ModifiedIds == {changes.modified[i].asset_id : i \in 1..Len(changes.modified)}

\* at least one of quantity, material, type, dimensions differs
TrackedFieldDiffers(b, a) ==
    \E f \in {"quantity", "material", "type", "dimensions"} : b[f] # a[f]

\* the ids of both blueprints whose (only) records differ in unit, floor or
\* confidence_score and in nothing else
UntrackedOnly ==
    { id \in Ids(before_blueprint) \cap Ids(after_blueprint) :
        /\ RecordOf(before_blueprint, id) # RecordOf(after_blueprint, id)
        /\ ~TrackedFieldDiffers(RecordOf(before_blueprint, id),
                                RecordOf(after_blueprint, id)) }

\* C11: compare_blueprints classifies every id by membership: an id only in
\* 'after' is in added and nowhere else, an id only in 'before' is in removed
\* and nowhere else, an id in both is in neither and, the id having one
\* record in each blueprint, is in modified exactly if quantity, material,
\* type or dimensions differ
C11_ClassifiedByMembership ==
    differ_op = "returned" =>
        LET B == Ids(before_blueprint)
            A == Ids(after_blueprint)
        IN /\ AddedIds = A \ B
           /\ RemovedIds = B \ A
           /\ ModifiedIds \subseteq A \cap B
           /\ UniqueIds(before_blueprint) /\ UniqueIds(after_blueprint) =>
                \A id \in A \cap B :
                    id \in ModifiedIds <=>
                        TrackedFieldDiffers(RecordOf(before_blueprint, id),
                                            RecordOf(after_blueprint, id))

\* an asset that differs only in an untracked field is in no list, next to
\* an added asset
C11_Witness ==
    /\ differ_op = "returned"
    /\ UniqueIds(before_blueprint) /\ UniqueIds(after_blueprint)
    /\ UntrackedOnly # {}
    /\ UntrackedOnly \cap (AddedIds \cup RemovedIds \cup ModifiedIds) = {}
    /\ AddedIds # {}

\* the change sets of a result: what is added, removed and modified,
\* whatever the order
ChangeSets(c) ==
    [added |-> Range(c.added), removed |-> Range(c.removed), modified |-> Range(c.modified)]

\* the orders a list can be put in
Reorderings(s) ==
    { [i \in 1..Len(s) |-> s[f[i]]] :
          f \in { g \in [1..Len(s) -> 1..Len(s)] : \A i, j \in 1..Len(s) : g[i] = g[j] => i = j } }

\* C12: permuting the order of the assets inside the 'before' or inside the
\* 'after' blueprint does not change the added, removed and modified change
\* sets
C12_OrderIndependent ==
    differ_op = "returned" =>
        \A b \in Reorderings(before_blueprint), a \in Reorderings(after_blueprint) :
            ChangeSets(compare_blueprints(b, a)) = ChangeSets(changes)

\* C13: a blueprint with an asset id that occurs more than once makes
\* compare_blueprints fail (InvalidSnapshot); no change set is returned
C13_DuplicateIdIsInvalidSnapshot ==
    ~UniqueIds(before_blueprint) \/ ~UniqueIds(after_blueprint) =>
        differ_op # "returned"

\* the entry of 'changes' for a field says before and after of the field
EntryOf(m, f) ==
    /\ m.changes[f].before = m.before[f]
    /\ m.changes[f].after = m.after[f]

\* C14: in every modified entry, 'changes' has an entry for quantity,
\* material, type or dimensions exactly if the field differs between before
\* and after, the entry gives the two values, and the quantity entry's delta
\* is after.quantity - before.quantity
C14_ChangesListDifferingFields ==
    differ_op = "returned" =>
        \A i \in 1..Len(changes.modified) :
            LET m == changes.modified[i]
            IN /\ \A f \in {"quantity", "material", "type", "dimensions"} :
                    /\ m.changes[f].present <=> m.before[f] # m.after[f]
                    /\ m.changes[f].present => EntryOf(m, f)
               /\ m.changes.quantity.present =>
                    m.changes.quantity.delta = m.after.quantity - m.before.quantity

\* Wall_A 400 -> 500 is modified with before 400, after 500, delta +100 and
\* no other entry
C14_Witness ==
    /\ differ_op = "returned"
    /\ \E i \in 1..Len(changes.modified) :
         LET m == changes.modified[i]
         IN /\ m.asset_id = "Wall_A"
            /\ m.changes.quantity.present
            /\ m.changes.quantity.before = 400
            /\ m.changes.quantity.after = 500
            /\ m.changes.quantity.delta = 100
            /\ ~m.changes.material.present
            /\ ~m.changes.type.present
            /\ ~m.changes.dimensions.present

(***************************************************************************)
(* Graph state: GraphClient.execute_query and StateQueries                 *)
(***************************************************************************)
\* a node as the dict of its properties; None of an OPTIONAL MATCH
Node(props) == [is_none |-> FALSE, props |-> props]
NoneNode == [is_none |-> TRUE, props |-> [id |-> "None"]]

\* bool(node): a None and an empty dict are falsy
Truthy(node) == ~node.is_none /\ DOMAIN node.props # {}

\* a dict without one key
Without(d, key) == [k \in DOMAIN d \ {key} |-> d[k]]

\* one record of 'RETURN obj, floor, lineitem, vendor'
Row(obj, lineitem) ==
    [obj |-> Node(obj), floor |-> NoneNode, lineitem |-> lineitem, vendor |-> NoneNode]

\* (obj:Object {id: 'Wall_A'}) of the project: 400 sqft at $20
Wall_A_Object ==
    [id |-> "Wall_A", quantity |-> 400, material |-> "Concrete",
     cost_per_unit |-> 20, total_cost |-> 8000]

HVAC_Object ==
    [id |-> "HVAC_Unit_1", quantity |-> 1, material |-> "Steel",
     cost_per_unit |-> 1500, total_cost |-> 1500]

\* (lineitem:LineItem {id: ...})
LineItemNode(id) == Node([id |-> id])

\* the rows an object of the graph can have: with every property and its
\* line item, without cost_per_unit, without an INFLUENCES relationship
Wall_A_Rows ==
    { Row(Wall_A_Object, LineItemNode("B47")),
      Row(Without(Wall_A_Object, "cost_per_unit"), LineItemNode("B47")),
      Row(Wall_A_Object, NoneNode) }

HVAC_Rows == { Row(HVAC_Object, LineItemNode("B48")) }

\* the graphs the project can have: each object is in it or not
Graphs ==
    { wall \cup hvac :
          wall \in {{}} \cup {{r} : r \in Wall_A_Rows},
          hvac \in {{}} \cup {{r} : r \in HVAC_Rows} }

\* what can go wrong with a query: no driver (get_session raises), the
\* server is not reachable or session.run fails
StoreFaults == {"none", "not_connected", "ServiceUnavailable"}

\* the records of MATCH (obj:Object {id: $object_id}) ...
MatchObject(g, object_id) ==
    IF \E row \in g : row.obj.props.id = object_id
    THEN << CHOOSE row \in g : row.obj.props.id = object_id >>
    ELSE <<>>

\* execute_query with 'return []' in the except clause
execute_query_swallowing(g, fault, object_id) ==
    IF fault # "none"
    THEN [raised |-> "", records |-> <<>>]
    ELSE [raised |-> "", records |-> MatchObject(g, object_id)]

\* GraphClient.execute_query: every exception becomes a RuntimeError
execute_query(g, fault, object_id) ==
    IF fault # "none"
    THEN [raised |-> "RuntimeError", records |-> <<>>]
    ELSE [raised |-> "", records |-> MatchObject(g, object_id)]

NoObjectState == [is_none |-> TRUE, object |-> NoneNode, floor |-> NoneNode,
             lineitem |-> NoneNode, vendor |-> NoneNode]

\* StateQueries.get_object_state: None, the state dict, or the exception of
\* execute_query
get_object_state(g, fault, object_id) ==
    LET q == execute_query(g, fault, object_id)
        records == q.records
    IN IF q.raised # "" THEN [raised |-> q.raised, state |-> NoObjectState]
       ELSE IF records = <<>> \/ ~Truthy(records[1].obj)
       THEN [raised |-> "", state |-> NoObjectState]
       ELSE [raised |-> "",
             state |-> [is_none |-> FALSE, object |-> records[1].obj,
                        floor |-> records[1].floor,
                        lineitem |-> records[1].lineitem,
                        vendor |-> records[1].vendor]]

\* cost_impact taken from the new quantity instead of the delta
CostImpact_of_total(new_quantity, current_quantity, cost_per_unit) ==
    new_quantity * cost_per_unit

\* quantity_delta = new_quantity - current_quantity;
\* cost_impact = quantity_delta * cost_per_unit
CostImpact(new_quantity, current_quantity, cost_per_unit) ==
    (new_quantity - current_quantity) * cost_per_unit

\* the dict calculate_delta returns for an asset the graph does not hold
NewAssetDelta(object_id, new_quantity, new_material) ==
    [exists |-> FALSE, object_id |-> object_id, is_new_asset |-> TRUE,
     new_quantity |-> new_quantity, new_material |-> new_material,
     cost_impact |-> NoneVal]

\* StateQueries.calculate_delta: the dict it returns, or the exception of
\* get_object_state
calculate_delta(g, fault, object_id, new_quantity, new_material) ==
    LET s == get_object_state(g, fault, object_id)
        current_state == s.state
        obj == current_state.object.props
        current_quantity == Get(obj, "quantity", 0)
        current_material == Get(obj, "material", "None")
        cost_per_unit == Get(obj, "cost_per_unit", 0)
    IN IF s.raised # ""
       THEN [raised |-> s.raised, delta |-> [exists |-> FALSE]]
       ELSE IF current_state.is_none \/ ~Truthy(current_state.object)
       THEN [raised |-> "", delta |-> NewAssetDelta(object_id, new_quantity, new_material)]
       ELSE [raised |-> "",
             delta |-> [exists |-> TRUE, object_id |-> object_id,
                        is_new_asset |-> FALSE,
                        current_quantity |-> current_quantity,
                        new_quantity |-> new_quantity,
                        quantity_delta |-> new_quantity - current_quantity,
                        current_material |-> current_material,
                        new_material |-> new_material,
                        material_changed |-> (new_material # "None"
                                              /\ new_material # current_material),
                        cost_per_unit |-> cost_per_unit,
                        cost_impact |-> CostImpact(new_quantity, current_quantity, cost_per_unit),
                        current_total_cost |-> Get(obj, "total_cost", 0),
                        new_total_cost |-> new_quantity * cost_per_unit,
                        lineitem |-> current_state.lineitem,
                        vendor |-> current_state.vendor]]

\* the arguments calculate_delta is called with, and how the store fares
DeltaArgs(object_id, new_quantity, new_material, fault) ==
    [object_id |-> object_id, new_quantity |-> new_quantity,
     new_material |-> new_material, fault |-> fault]

ObjectIds == {"Wall_A", "HVAC_Unit_1"}
NewQuantities == {350, 400, 500}
NewMaterials == {"None", "Steel"}

\* the graph as the project's earlier writes left it
WriteGraph ==
    /\ resolver_op = "idle"
    /\ pipeline_pc = "idle"
    /\ graph = {}
    /\ graph' \in Graphs \ {{}}
    /\ UNCHANGED <<delta_args, delta_result, resolver_op>>
    /\ UNCHANGED <<budget_file, dispatcherVars, callVars, clientVars, reasonerVars, differVars, gatewayVars, pipelineVars>>

\* the call of StateQueries.calculate_delta
CalculateDelta ==
    /\ resolver_op = "idle"
    /\ \E object_id \in ObjectIds, new_quantity \in NewQuantities,
          new_material \in NewMaterials, fault \in StoreFaults :
         LET d == calculate_delta(graph, fault, object_id, new_quantity, new_material)
         IN /\ delta_args' = DeltaArgs(object_id, new_quantity, new_material, fault)
            /\ delta_result' = d
            /\ resolver_op' = IF d.raised = "" THEN "returned" ELSE "raised"
    /\ UNCHANGED graph
    /\ UNCHANGED <<budget_file, dispatcherVars, callVars, clientVars, reasonerVars, differVars, gatewayVars, pipelineVars>>

NextResolve == WriteGraph \/ CalculateDelta

SpecResolve == InitDiff /\ [][NextResolve]_vars

(***************************************************************************)
(* Properties of the graph queries                                         *)
(***************************************************************************)
\* the graph holds an object with the id
Holds(object_id) == \E row \in graph : row.obj.props.id = object_id

\* the properties of the object
Stored(object_id) == (CHOOSE row \in graph : row.obj.props.id = object_id).obj.props

\* what the last calculate_delta returned
LastDelta == delta_result.delta

\* C15: for an object the graph holds with its quantity and cost_per_unit,
\* calculate_delta gives quantity_delta = new quantity - stored quantity and
\* cost_impact = quantity_delta * cost_per_unit, both with their sign
C15_DeltaArithmetic ==
    /\ resolver_op = "returned"
    /\ Holds(delta_args.object_id)
    /\ {"quantity", "cost_per_unit"} \subseteq DOMAIN Stored(delta_args.object_id)
    => /\ LastDelta.exists
       /\ LastDelta.quantity_delta =
              delta_args.new_quantity - Stored(delta_args.object_id).quantity
       /\ LastDelta.cost_impact =
              LastDelta.quantity_delta * Stored(delta_args.object_id).cost_per_unit

\* 400 -> 500 at 20 gives 100 and 2000
C15_Witness ==
    /\ resolver_op = "returned"
    /\ Holds("Wall_A")
    /\ delta_args.object_id = "Wall_A"
    /\ delta_args.new_quantity = 500
    /\ LastDelta.exists
    /\ LastDelta.current_quantity = 400
    /\ LastDelta.cost_per_unit = 20
    /\ LastDelta.quantity_delta = 100
    /\ LastDelta.cost_impact = 2000

\* C16: calculate_delta returns the new-asset result exactly when the store
\* answered and holds no object with the id; when the query fails the call
\* raises and returns nothing
C16_NewAssetOnlyWhenStoreAnswered ==
    resolver_op # "idle" =>
        /\ (resolver_op = "returned" /\ ~LastDelta.exists)
               <=> (delta_args.fault = "none" /\ ~Holds(delta_args.object_id))
        /\ delta_args.fault # "none" => resolver_op = "raised"

\* the query for an object the graph does not hold fails: an error, no
\* new-asset result
C16_Witness ==
    /\ resolver_op = "raised"
    /\ delta_args.fault # "none"
    /\ ~Holds(delta_args.object_id)
    /\ graph # {}

(***************************************************************************)
(* Reasoning gateway: ClaudeClient.reason_about_change                     *)
(***************************************************************************)
\* most content blocks of one response
MaxBlocks == 2

\* block.input of a tool_use block: the dict of the arguments Claude gave
ToolInput(action_type, requires_human, confidence_score) ==
    [action_type |-> action_type, requires_human |-> requires_human,
     confidence_score |-> confidence_score, reasoning |-> Rationale]

\* the arguments a recommend_action call can come with: as the schema asks,
\* with the optional budget code, with an action or a score outside the
\* schema, and with a required argument left out
ToolInputs ==
    LET ok == ToolInput(ActionType.UPDATE_BUDGET, FALSE, 950)
    IN { ok,
         [k \in DOMAIN ok \cup {"recommended_budget_code"} |->
              IF k = "recommended_budget_code" THEN "B47" ELSE ok[k]],
         ToolInput(ActionType.UPDATE_BUDGET, TRUE, 950),
         ToolInput(ActionType.FLAG_FOR_APPROVAL, TRUE, 700),
         ToolInput("delete_budget", FALSE, 950),
         ToolInput(ActionType.UPDATE_BUDGET, FALSE, 1700),
         Without(ok, "action_type"),
         Without(ok, "confidence_score"),
         Without(ok, "reasoning") }

\* a content block of a response
ContentBlock(type, name, input) == [type |-> type, name |-> name, input |-> input]

ContentBlocks ==
    { ContentBlock("text", "None", [k \in {} |-> "None"]),
      ContentBlock("tool_use", "other_tool", ToolInput(ActionType.UPDATE_BUDGET, FALSE, 950)) }
    \cup { ContentBlock("tool_use", "recommend_action", input) : input \in ToolInputs }

\* message.content
Contents == UNION { [1..n -> ContentBlocks] : n \in 0..MaxBlocks }

\* what messages.create can raise
ApiFaults == {"none", "APIConnectionError", "APIStatusError"}

\* block.input.get(key): None when the argument is not there
InputGet(input, key) ==
    IF key \in DOMAIN input THEN input[key]
    ELSE IF key = "confidence_score" THEN NoneVal
    ELSE "None"

\* the test of the two ifs in the loop of _extract_recommendation
IsRecommendAction(block) ==
    block.type = "tool_use" /\ block.name = "recommend_action"

\* the loop keeps going and the last matching block is taken
RecommendBlock_last(content) ==
    IF \E i \in 1..Len(content) : IsRecommendAction(content[i])
    THEN CHOOSE i \in 1..Len(content) :
            /\ IsRecommendAction(content[i])
            /\ \A j \in (i + 1)..Len(content) : ~IsRecommendAction(content[j])
    ELSE 0

\* the index of the block the loop of _extract_recommendation returns from,
\* 0 when it runs to its end
RecommendBlock(content) ==
    IF \E i \in 1..Len(content) : IsRecommendAction(content[i])
    THEN CHOOSE i \in 1..Len(content) :
            /\ IsRecommendAction(content[i])
            /\ \A j \in 1..(i - 1) : ~IsRecommendAction(content[j])
    ELSE 0

\* ClaudeClient._extract_recommendation: None, or the dict of the five keys
_extract_recommendation(content) ==
    LET i == RecommendBlock(content)
    IN IF i = 0 THEN [is_none |-> TRUE]
       ELSE [is_none |-> FALSE,
             action_type |-> InputGet(content[i].input, "action_type"),
             requires_human |-> InputGet(content[i].input, "requires_human"),
             confidence_score |-> InputGet(content[i].input, "confidence_score"),
             reasoning |-> InputGet(content[i].input, "reasoning"),
             recommended_budget_code |-> InputGet(content[i].input, "recommended_budget_code")]

\* ClaudeClient.reason_about_change on the response messages.create gives
\* (or the exception it raises): the recommendation, or the RuntimeError the
\* except clause raises
reason_about_change(content, fault) ==
    IF fault # "none"
    THEN [raised |-> "RuntimeError", is_none |-> TRUE]
    ELSE LET recommendation == _extract_recommendation(content)
         IN IF recommendation.is_none
            THEN [raised |-> "RuntimeError", is_none |-> TRUE]
            ELSE [k \in DOMAIN recommendation \cup {"raised"} |->
                      IF k = "raised" THEN "" ELSE recommendation[k]]

\* the call of reason_about_change: one messages.create
ReasonAboutChange ==
    /\ gateway_op = "idle"
    /\ \E content \in Contents, fault \in ApiFaults :
         /\ fault # "none" => content = <<>>
         /\ claude_request' = [content |-> content, fault |-> fault]
         /\ claude_result' = reason_about_change(content, fault)
         /\ gateway_op' = IF reason_about_change(content, fault).raised = ""
                          THEN "returned" ELSE "raised"
    /\ api_calls' = api_calls + 1
    /\ UNCHANGED <<budget_file, dispatcherVars, callVars, clientVars, reasonerVars, differVars, resolverVars, pipelineVars>>

NextGateway == ReasonAboutChange

SpecGateway == InitDiff /\ [][NextGateway]_vars

(***************************************************************************)
(* Properties of the reasoning gateway                                     *)
(***************************************************************************)
\* the recommend_action blocks of the response, in order
RecommendIndexes ==
    { i \in 1..Len(claude_request.content) :
          /\ claude_request.content[i].type = "tool_use"
          /\ claude_request.content[i].name = "recommend_action" }

\* the recommendation has the arguments of the block, None for a missing one
TakenFrom(block) ==
    /\ \A k \in {"action_type", "requires_human", "reasoning", "recommended_budget_code"} :
          claude_result[k] = IF k \in DOMAIN block.input THEN block.input[k] ELSE "None"
    /\ claude_result.confidence_score =
          IF "confidence_score" \in DOMAIN block.input
          THEN block.input.confidence_score ELSE NoneVal

\* C18: reason_about_change returns a recommendation exactly if the response
\* has a recommend_action tool-use block, and then the one of the first such
\* block; without one, or when the API call raises, it raises, returns no
\* recommendation and has called the API once
C18_FirstRecommendActionOrError ==
    gateway_op # "idle" =>
        /\ gateway_op = "returned"
               <=> (claude_request.fault = "none" /\ RecommendIndexes # {})
        /\ gateway_op = "returned" =>
               /\ ~claude_result.is_none
               /\ \E i \in RecommendIndexes :
                    /\ \A j \in RecommendIndexes : i <= j
                    /\ TakenFrom(claude_request.content[i])
        /\ gateway_op # "returned" =>
               /\ gateway_op = "raised"
               /\ claude_result.raised = "RuntimeError"
               /\ claude_result.is_none
        /\ api_calls = 1

\* a response with two different recommend_action blocks: the first is
\* returned
C18_Witness ==
    /\ gateway_op = "returned"
    /\ RecommendIndexes = {1, 2}
    /\ claude_request.content[1] # claude_request.content[2]
    /\ TakenFrom(claude_request.content[1])
    /\ ~TakenFrom(claude_request.content[2])

\* the schema of recommend_action: the action is update_budget or
\* flag_for_approval, the score is there and in [0, 1], the reasoning is there
SchemaValid(r) ==
    /\ r.action_type \in {ActionType.UPDATE_BUDGET, ActionType.FLAG_FOR_APPROVAL}
    /\ r.confidence_score # NoneVal
    /\ r.confidence_score >= 0 /\ r.confidence_score <= 1000
    /\ r.reasoning # "None"

\* C19: a recommendation that violates the schema is rejected by the
\* gateway: what reason_about_change returns is valid
C19_MalformedIsRejected ==
    gateway_op = "returned" => SchemaValid(claude_result)

(***************************************************************************)
(* Briefcase assembly: BriefcaseAssembler and BriefcaseTemplates           *)
(***************************************************************************)
\* the replacement fields of BriefcaseTemplates.asset_change_template
asset_change_template ==
    {"asset_id", "asset_type", "material", "current_quantity", "unit",
     "cost_per_unit", "current_total_cost", "budget_code", "vendor_name",
     "last_updated", "new_quantity", "quantity_delta", "cost_impact",
     "material_changed", "extraction_confidence", "parser_source",
     "data_trustworthiness", "budget_description", "allocated_budget",
     "spent_to_date", "remaining_budget", "contingency", "approval_threshold",
     "max_contingency", "min_confidence_threshold"}

\* the replacement fields of BriefcaseTemplates.new_asset_template
new_asset_template ==
    {"asset_id", "asset_type", "material", "quantity", "unit", "floor_id",
     "project_name", "floor_name", "revision", "date", "extraction_confidence",
     "parser_source", "data_trustworthiness", "project_budget",
     "total_allocated", "total_spent", "total_remaining", "total_contingency",
     "max_contingency", "estimated_cost_per_unit"}

\* template.format(**template_vars): KeyError for a field without a
\* variable; else the text, kept as the value shown per field, the
\* extraction confidence to two decimals (amounts are whole dollars)
Format(template, template_vars) ==
    IF ~(template \subseteq DOMAIN template_vars)
    THEN [raised |-> "KeyError", prompt |-> [k \in {} |-> 0]]
    ELSE [raised |-> "",
          prompt |-> [k \in template |->
                         IF k = "extraction_confidence"
                         THEN Fmt2(template_vars[k]) ELSE template_vars[k]]]

\* delta.get(name, {}) or {}
DictOrEmpty(node) == IF Truthy(node) THEN node.props ELSE [k \in {} |-> 0]

\* BriefcaseAssembler.assemble_new_asset(asset_data), project_context None
assemble_new_asset(asset_data) ==
    Format(new_asset_template,
           [asset_id |-> Get(asset_data, "object_id", "Unknown"),
            asset_type |-> Get(asset_data, "type", "Unknown"),
            material |-> Get(asset_data, "material", "Unknown"),
            quantity |-> Get(asset_data, "new_quantity", Get(asset_data, "quantity", 0)),
            unit |-> Get(asset_data, "unit", "units"),
            floor_id |-> Get(asset_data, "floor", "Unknown"),
            project_name |-> "Unknown Project",
            floor_name |-> "Unknown Floor",
            revision |-> "Unknown",
            date |-> "now",
            project_budget |-> 0,
            total_allocated |-> 0,
            total_spent |-> 0,
            total_remaining |-> 0,
            total_contingency |-> 0,
            max_contingency |-> 5000,
            estimated_cost_per_unit |-> 0])

\* BriefcaseAssembler.assemble_asset_change(delta), project_context None
assemble_asset_change(d) ==
    IF ~Get(d, "exists", FALSE)
    THEN assemble_new_asset(d)
    ELSE LET lineitem == DictOrEmpty(Get(d, "lineitem", NoneNode))
             vendor == DictOrEmpty(Get(d, "vendor", NoneNode))
         IN Format(asset_change_template,
                   [asset_id |-> d.object_id,
                    asset_type |-> Get(d, "current_material", "Unknown"),
                    material |-> Get(d, "current_material", "Unknown"),
                    current_quantity |-> Get(d, "current_quantity", 0),
                    unit |-> Get(lineitem, "unit", "units"),
                    cost_per_unit |-> Get(d, "cost_per_unit", 0),
                    current_total_cost |-> Get(d, "current_total_cost", 0),
                    budget_code |-> Get(lineitem, "id", "Unknown"),
                    vendor_name |-> Get(vendor, "name", "Unknown"),
                    last_updated |-> "Unknown",
                    new_quantity |-> Get(d, "new_quantity", 0),
                    quantity_delta |-> Get(d, "quantity_delta", 0),
                    cost_impact |-> Get(d, "cost_impact", 0),
                    material_changed |-> Get(d, "material_changed", FALSE),
                    budget_description |-> Get(lineitem, "description", "Unknown"),
                    allocated_budget |-> Get(lineitem, "allocated_budget", 0),
                    spent_to_date |-> Get(lineitem, "spent_to_date", 0),
                    remaining_budget |-> Get(lineitem, "remaining", 0),
                    contingency |-> Get(lineitem, "contingency", 0),
                    approval_threshold |-> 500,
                    max_contingency |-> 5000,
                    min_confidence_threshold |-> min_confidence_threshold])

(***************************************************************************)
(* The pipeline run: run_pipeline.main, steps 3 to 6                       *)
(***************************************************************************)
HVAC_Unit_1 == BlueprintAsset("HVAC_Unit_1", "HVAC", "Steel", 1, "unit", "Floor_1", NoDimensions, 1000)

\* the assets of the blueprints a run parses: Wall_A as before, Wall_A with
\* 500 sqft read with full and with lower confidence, and the HVAC unit
PipelineAssets ==
    { Wall_A,
      [Wall_A EXCEPT !.quantity = 500],
      [Wall_A EXCEPT !.quantity = 500, !.confidence_score = 800],
      HVAC_Unit_1 }

\* the blueprints before.json and after.json can hold
BeforeBlueprints == { <<>>, << Wall_A >>, << Wall_A, HVAC_Unit_1 >> }
AfterBlueprints == UNION { [1..n -> PipelineAssets] : n \in 0..MaxAssets }

\* the answers of the Claude API during a run
PipelineContents ==
    { <<>>,
      << ContentBlock("tool_use", "recommend_action", ToolInput(ActionType.UPDATE_BUDGET, FALSE, 950)) >>,
      << ContentBlock("tool_use", "recommend_action", Without(ToolInput(ActionType.UPDATE_BUDGET, FALSE, 950), "confidence_score")) >> }

\* the recommendation dict reason_about_change returned
RecommendationDict(r) == [k \in DOMAIN r \ {"raised", "is_none"} |-> r[k]]

\* how far an iteration got: the stage, the exception that left the loop
\* ("" when none), the ledger file afterwards, the entries appended to
\* 'results', whether the graph had the asset, the extraction confidence
\* the briefcase shows and the one handed to dispatch (None when there is
\* no briefcase, no dispatch or no such argument)
Iteration(stage, raised, f, appended, exists, briefcase_ec, dispatch_ec) ==
    [stage |-> stage, raised |-> raised, file |-> f, appended |-> appended,
     exists |-> exists, briefcase_ec |-> briefcase_ec, dispatch_ec |-> dispatch_ec]

\* the extraction confidence a briefcase shows
BriefcaseConfidence(b) ==
    IF b.raised = "" /\ "extraction_confidence" \in DOMAIN b.prompt
    THEN b.prompt.extraction_confidence ELSE NoneVal

\* the body of 'for change in changes["modified"]' for one change: the
\* store's answer, the API's answer and the ledger as the iteration meets them
process_modified(f, g, change, store_fault, content, api_fault) ==
    LET asset_id == change.asset_id
        d == calculate_delta(g, store_fault, asset_id, change.after.quantity, "None")
        briefcase == assemble_asset_change(d.delta)
        r == reason_about_change(content, api_fault)
        recommendation == RecommendationDict(r)
        x == dispatch(f, min_confidence_threshold, recommendation, asset_id,
                      d.delta.lineitem.props.id, d.delta.cost_impact, NoneVal, NoFault)
    IN IF d.raised # ""
       THEN Iteration("calculate_delta", d.raised, f, <<>>, FALSE, NoneVal, NoneVal)
       ELSE IF ~d.delta.exists
       THEN Iteration("continue", "", f, <<>>, FALSE, NoneVal, NoneVal)
       ELSE IF briefcase.raised # ""
       THEN Iteration("assemble_asset_change", briefcase.raised, f, <<>>, TRUE, NoneVal, NoneVal)
       ELSE IF r.raised # ""
       THEN Iteration("reason_about_change", r.raised, f, <<>>, TRUE,
                      BriefcaseConfidence(briefcase), NoneVal)
       ELSE IF r.confidence_score = NoneVal \/ r.reasoning = "None"
       THEN Iteration("print", "TypeError", f, <<>>, TRUE,
                      BriefcaseConfidence(briefcase), NoneVal)
       ELSE IF d.delta.lineitem.is_none
       THEN Iteration("dispatch", "TypeError", f, <<>>, TRUE,
                      BriefcaseConfidence(briefcase), NoneVal)
       ELSE Iteration("append", "", x.file,
                      << [asset_id |-> asset_id, change_type |-> "modified",
                          recommendation |-> recommendation,
                          dispatch_result |-> x.result] >>,
                      TRUE, BriefcaseConfidence(briefcase),
                      x.result.extraction_confidence)

\* the body of 'for added_asset_dict in changes["added"]' for one asset
process_added(f, added_asset_dict, content, api_fault) ==
    LET asset_id == added_asset_dict.id
        briefcase == assemble_new_asset([object_id |-> asset_id,
                                         type |-> added_asset_dict.type,
                                         material |-> added_asset_dict.material,
                                         quantity |-> added_asset_dict.quantity,
                                         unit |-> added_asset_dict.unit,
                                         floor |-> added_asset_dict.floor])
        r == reason_about_change(content, api_fault)
    IN IF briefcase.raised # ""
       THEN Iteration("assemble_new_asset", briefcase.raised, f, <<>>, FALSE, NoneVal, NoneVal)
       ELSE IF r.raised # ""
       THEN Iteration("reason_about_change", r.raised, f, <<>>, FALSE,
                      BriefcaseConfidence(briefcase), NoneVal)
       ELSE IF r.reasoning = "None"
       THEN Iteration("print", "TypeError", f, <<>>, FALSE,
                      BriefcaseConfidence(briefcase), NoneVal)
       ELSE Iteration("append", "", f,
                      << [asset_id |-> asset_id, change_type |-> "added",
                          recommendation |-> RecommendationDict(r)] >>,
                      FALSE, BriefcaseConfidence(briefcase), NoneVal)

\* what the trace keeps of an iteration
Traced(asset_id, change_type, confidence_score, it) ==
    [asset_id |-> asset_id, change_type |-> change_type,
     confidence_score |-> confidence_score, stage |-> it.stage,
     raised |-> it.raised, exists |-> it.exists,
     briefcase_ec |-> it.briefcase_ec, dispatch_ec |-> it.dispatch_ec]

\* steps 3 and 4: the two blueprints are parsed and compared
PipelineStart ==
    /\ pipeline_pc = "idle"
    /\ differ_op = "idle"
    /\ resolver_op = "idle"
    /\ gateway_op = "idle"
    /\ \E before \in BeforeBlueprints, after \in AfterBlueprints :
         /\ before_blueprint' = before
         /\ after_blueprint' = after
         /\ changes' = compare_blueprints(before, after)
    /\ differ_op' = "returned"
    /\ pipeline_pc' = "modified"
    /\ pipeline_i' = 0
    /\ UNCHANGED <<pipeline_results, pipeline_trace>>
    /\ UNCHANGED <<budget_file, dispatcherVars, callVars, clientVars, reasonerVars, resolverVars, gatewayVars>>

\* the end of an iteration: an exception leaves the loops for the except
\* clause of main, which returns 1
AfterIteration(it, entry) ==
    /\ budget_file' = it.file
    /\ pipeline_results' = pipeline_results \o it.appended
    /\ pipeline_trace' = Append(pipeline_trace, entry)
    /\ pipeline_i' = pipeline_i + 1
    /\ pipeline_pc' = IF it.raised # "" THEN "failed" ELSE pipeline_pc

\* one iteration of the loop over changes['modified']
ProcessModified ==
    /\ pipeline_pc = "modified"
    /\ pipeline_i < Len(changes.modified)
    /\ \E store_fault \in StoreFaults, content \in PipelineContents, api_fault \in ApiFaults :
         LET change == changes.modified[pipeline_i + 1]
             it == process_modified(budget_file, graph, change, store_fault, content, api_fault)
         IN AfterIteration(it, Traced(change.asset_id, "modified",
                                      change.after.confidence_score, it))
    /\ UNCHANGED <<dispatcherVars, callVars, clientVars, reasonerVars, differVars, resolverVars, gatewayVars>>

\* the loop over changes['modified'] is exhausted
ModifiedExhausted ==
    /\ pipeline_pc = "modified"
    /\ pipeline_i = Len(changes.modified)
    /\ pipeline_pc' = "added"
    /\ pipeline_i' = 0
    /\ UNCHANGED <<pipeline_results, pipeline_trace>>
    /\ UNCHANGED <<budget_file, dispatcherVars, callVars, clientVars, reasonerVars, differVars, resolverVars, gatewayVars>>

\* one iteration of the loop over changes['added']
ProcessAdded ==
    /\ pipeline_pc = "added"
    /\ pipeline_i < Len(changes.added)
    /\ \E content \in PipelineContents, api_fault \in ApiFaults :
         LET added_asset_dict == changes.added[pipeline_i + 1]
             it == process_added(budget_file, added_asset_dict, content, api_fault)
         IN AfterIteration(it, Traced(added_asset_dict.id, "added",
                                      added_asset_dict.confidence_score, it))
    /\ UNCHANGED <<dispatcherVars, callVars, clientVars, reasonerVars, differVars, resolverVars, gatewayVars>>

\* step 6: the summary is printed and main returns 0
Summary ==
    /\ pipeline_pc = "added"
    /\ pipeline_i = Len(changes.added)
    /\ pipeline_pc' = "done"
    /\ UNCHANGED <<pipeline_i, pipeline_results, pipeline_trace>>
    /\ UNCHANGED <<budget_file, dispatcherVars, callVars, clientVars, reasonerVars, differVars, resolverVars, gatewayVars>>

NextPipeline ==
    \/ WriteGraph
    \/ PipelineStart
    \/ ProcessModified
    \/ ModifiedExhausted
    \/ ProcessAdded
    \/ Summary

SpecPipeline == InitDiff /\ [][NextPipeline]_vars

(***************************************************************************)
(* Properties of the pipeline run                                          *)
(***************************************************************************)
\* C17: for a modified asset the graph holds, the extraction confidence of
\* the asset's parsed record is what the briefcase shows (to the template's
\* two decimals) and, once the change is dispatched, the
\* extraction_confidence of the dispatch
C17_ExtractionConfidenceCarried ==
    \A i \in 1..Len(pipeline_trace) :
        LET t == pipeline_trace[i]
        IN t.change_type = "modified" /\ t.exists =>
              /\ t.briefcase_ec = Fmt2(t.confidence_score)
              /\ t.stage = "append" => t.dispatch_ec = t.confidence_score

\* the changes of the run: the modified and the added assets
ChangeCount == Len(changes.modified) + Len(changes.added)

\* C20: errors are change-scoped: when the run has ended, with or without
\* a failed state read, briefcase assembly or reasoning call, every modified
\* and added change was processed
C20_ErrorsAreChangeScoped ==
    pipeline_pc \in {"done", "failed"} => Len(pipeline_trace) = ChangeCount

(***************************************************************************)
(***************************************************************************)
(* A single caller on the ledger: MockBudgetAPI objects constructed on the *)
(* file, the ledger calls and the approval calls of ActionDispatcher       *)
(***************************************************************************)
\* most ledger and approval calls of the caller
MaxCalls == 2

\* most MockBudgetAPI objects constructed on the file
MaxInstances == 2

\* the constructor writes the default budget whatever the file holds
MockBudgetAPI_init_always(f) == File("ok", default_budget)

\* MockBudgetAPI.__init__: the file afterwards; the default budget is
\* written when the file does not exist or has size 0
MockBudgetAPI_init(f) ==
    IF f.kind = "missing" \/ f.kind = "empty"
    THEN _save_budget(f, default_budget, NoFault).file
    ELSE f

\* BudgetLineItem of the answer "None"
NoLineItem == BudgetLineItem("None", 0, 0)

\* MockBudgetAPI.get_line_item: the exception of _load_budget, None, or the
\* first line item with the code
get_line_item(f, code) ==
    IF LoadRaises(f, NoFault)
    THEN [raised |-> TRUE, is_none |-> TRUE, item |-> NoLineItem]
    ELSE LET i == FindLineItem(f.state, code)
         IN IF i = 0
            THEN [raised |-> FALSE, is_none |-> TRUE, item |-> NoLineItem]
            ELSE [raised |-> FALSE, is_none |-> FALSE,
                  item |-> f.state.line_items[i]]

\* the dict get_pending_approvals builds of a pending change of a line item
Approval(item, change) ==
    [budget_code |-> item.code, asset_id |-> change.asset_id,
     delta |-> change.delta, status |-> change.status,
     reasoning |-> change.reasoning]

\* the two loops of get_pending_approvals over the first n line items
RECURSIVE PendingUpTo(_, _)
PendingUpTo(line_items, n) ==
    IF n = 0 THEN <<>>
    ELSE PendingUpTo(line_items, n - 1)
         \o [j \in 1..Len(line_items[n].pending_changes) |->
                Approval(line_items[n], line_items[n].pending_changes[j])]

\* MockBudgetAPI.get_pending_approvals: the exception of _load_budget, or
\* the pending changes of every line item, in the order of the file
get_pending_approvals(f) ==
    IF LoadRaises(f, NoFault)
    THEN [raised |-> TRUE, pending |-> <<>>]
    ELSE [raised |-> FALSE,
          pending |-> PendingUpTo(f.state.line_items, Len(f.state.line_items))]

\* ActionDispatcher.get_approval_queue
get_approval_queue(f) == get_pending_approvals(f)

\* the pending record of the asset is taken off the queue of the line
approve_pending_change_removing(f, budget_code, asset_id) ==
    LET i == FindLineItem(f.state, budget_code)
    IN [file |-> IF f.kind # "ok" \/ i = 0 THEN f
                 ELSE File("ok", [f.state EXCEPT !.line_items[i].pending_changes =
                          SelectSeq(@, LAMBDA c : c.asset_id # asset_id)]),
        ret |-> TRUE]

\* ActionDispatcher.approve_pending_change: it logs and returns True
approve_pending_change(f, budget_code, asset_id) == [file |-> f, ret |-> TRUE]

\* ActionDispatcher.reject_pending_change: it logs and returns True
reject_pending_change(f, budget_code, asset_id) == [file |-> f, ret |-> TRUE]

\* the ledger file after ActionDispatcher.dispatch_batch on recommendations
\* and changes of the same length: dispatch on each pair in order
RECURSIVE dispatch_batch_file(_, _, _, _)
dispatch_batch_file(f, threshold, pairs, n) ==
    IF n = 0 THEN f
    ELSE dispatch(dispatch_batch_file(f, threshold, pairs, n - 1), threshold,
                  pairs[n][1], pairs[n][2].asset_id, pairs[n][2].budget_code,
                  pairs[n][2].cost_impact, NoneVal, NoFault).file

\* arguments of a call of the caller ("None", 0 and FALSE where the call
\* has no such argument)
CallArgs(code, asset_id, delta, auto_approved) ==
    [code |-> code, asset_id |-> asset_id, delta |-> delta,
     auto_approved |-> auto_approved]

NoArgs == CallArgs("None", "None", 0, FALSE)

\* one construction or call: its name and arguments, the file before and
\* after it, the bool it returned (FALSE when it returns none), whether it
\* raised, and the list or line item a read returned
Call(api, args, before, after, returned, raised, pending, item) ==
    [api |-> api, args |-> args, before |-> before, after |-> after,
     ret |-> returned, raised |-> raised, pending |-> pending, item |-> item]

\* the recommendations the caller dispatches: one that commits and one that
\* queues
ClientRecommendations ==
    { Recommendation(ActionType.UPDATE_BUDGET, FALSE, 950),
      Recommendation(ActionType.FLAG_FOR_APPROVAL, TRUE, 950) }

\* the (budget_code, asset_id) pairs the approval calls are made with
ApprovalKeys == { <<"B47", "Wall_A">>, <<"B48", "Wall_B">> }

\* the file does not exist yet or is empty, and no MockBudgetAPI was
\* constructed on it
InitLedger ==
    /\ budget_file \in {File("missing", NoState), File("empty", NoState)}
    /\ min_confidence_threshold = DefaultThreshold
    /\ op = "init"
    /\ batch_len = 0
    /\ batch_ec = FALSE
    /\ inputs = <<>>
    /\ results = <<>>
    /\ calls = <<>>
    /\ pre_file = budget_file
    /\ batch_file = budget_file
    /\ commits = [k \in ChangeKeys |-> 0]
    /\ n_dispatch = 0
    /\ NoCalls
    /\ ComponentsIdle

\* the calls made so far, constructions left out
CallsMade == Len(ledger_hist) - ledger_instances

\* the step of the caller that makes the call c
Record(c) ==
    /\ budget_file' = c.after
    /\ ledger_hist' = Append(ledger_hist, c)

\* a call on an object constructed before
ClientCall(c) ==
    /\ ledger_instances > 0
    /\ CallsMade < MaxCalls
    /\ Record(c)
    /\ UNCHANGED <<ledger_instances, init_pc, dispatcherVars, callVars,
                   differVars, resolverVars, gatewayVars, pipelineVars,
                   reasonerVars>>

\* MockBudgetAPI(budget_file_path)
Construct ==
    /\ ledger_instances < MaxInstances
    /\ ledger_instances' = ledger_instances + 1
    /\ Record(Call("MockBudgetAPI", NoArgs, budget_file,
                   MockBudgetAPI_init(budget_file), FALSE, FALSE, <<>>,
                   NoLineItem))
    /\ UNCHANGED <<init_pc, dispatcherVars, callVars, differVars,
                   resolverVars, gatewayVars, pipelineVars, reasonerVars>>

\* budget_api.update_budget(code, 1000.0, 'Wall_A', auto_approved)
UpdateBudget ==
    \E code \in {"B47", "B99"}, auto_approved \in BOOLEAN :
        LET x == update_budget(budget_file, code, 1000, "Wall_A",
                               auto_approved, NoFault)
        IN ClientCall(Call("update_budget",
                           CallArgs(code, "Wall_A", 1000, auto_approved),
                           budget_file, x.file, x.ret, FALSE, <<>>, NoLineItem))

\* budget_api.flag_for_approval(code, -40.0, 'Wall_B', reasoning)
FlagForApproval ==
    \E code \in {"B47", "B48"} :
        LET x == flag_for_approval(budget_file, code, -40, "Wall_B",
                                   PlainText(Rationale), NoFault)
        IN ClientCall(Call("flag_for_approval",
                           CallArgs(code, "Wall_B", -40, FALSE),
                           budget_file, x.file, x.ret, FALSE, <<>>, NoLineItem))

\* dispatcher.dispatch(recommendation, 'Wall_A', 'B47', 1000.0)
ClientDispatch ==
    \E r \in ClientRecommendations :
        LET x == dispatch(budget_file, min_confidence_threshold, r, "Wall_A",
                          "B47", 1000, NoneVal, NoFault)
        IN ClientCall(Call("dispatch",
                           CallArgs("B47", "Wall_A", 1000, ~r.requires_human),
                           budget_file, x.file, x.result.success, FALSE, <<>>,
                           NoLineItem))

\* dispatcher.dispatch_batch on the two recommendations, both for Wall_A on
\* B47
ClientDispatchBatch ==
    LET change == Change("Wall_A", "B47", 1000)
        pairs == << <<Recommendation(ActionType.FLAG_FOR_APPROVAL, TRUE, 950), change>>,
                    <<Recommendation(ActionType.UPDATE_BUDGET, FALSE, 950), change>> >>
    IN ClientCall(Call("dispatch_batch", CallArgs("B47", "Wall_A", 1000, FALSE),
                       budget_file,
                       dispatch_batch_file(budget_file, min_confidence_threshold,
                                           pairs, Len(pairs)),
                       FALSE, FALSE, <<>>, NoLineItem))

\* dispatcher.approve_pending_change(budget_code, asset_id)
ApprovePendingChange ==
    \E k \in ApprovalKeys :
        LET x == approve_pending_change(budget_file, k[1], k[2])
        IN ClientCall(Call("approve_pending_change", CallArgs(k[1], k[2], 0, FALSE),
                           budget_file, x.file, x.ret, FALSE, <<>>, NoLineItem))

\* dispatcher.reject_pending_change(budget_code, asset_id, reason)
RejectPendingChange ==
    \E k \in ApprovalKeys :
        LET x == reject_pending_change(budget_file, k[1], k[2])
        IN ClientCall(Call("reject_pending_change", CallArgs(k[1], k[2], 0, FALSE),
                           budget_file, x.file, x.ret, FALSE, <<>>, NoLineItem))

\* dispatcher.get_approval_queue()
GetApprovalQueue ==
    LET x == get_approval_queue(budget_file)
    IN ClientCall(Call("get_approval_queue", NoArgs, budget_file, budget_file,
                       FALSE, x.raised, x.pending, NoLineItem))

\* budget_api.get_line_item(code)
GetLineItem ==
    \E code \in {"B47", "B99"} :
        LET x == get_line_item(budget_file, code)
        IN ClientCall(Call("get_line_item", CallArgs(code, "None", 0, FALSE),
                           budget_file, budget_file, FALSE, x.raised, <<>>,
                           x.item))

NextLedger ==
    \/ Construct
    \/ UpdateBudget
    \/ FlagForApproval
    \/ ClientDispatch
    \/ ClientDispatchBatch
    \/ ApprovePendingChange
    \/ RejectPendingChange
    \/ GetApprovalQueue
    \/ GetLineItem

SpecLedger == InitLedger /\ [][NextLedger]_vars

(***************************************************************************)
(* A MockBudgetAPI constructed on the file while ledger calls run          *)
(***************************************************************************)
\* the state of everything but the file and the constructor's position
besideConstructor ==
    <<ledger_instances, ledger_hist, dispatcherVars, callVars, differVars,
      resolverVars, gatewayVars, pipelineVars, reasonerVars>>

\* __init__: "if not self.budget_file.exists() or
\* self.budget_file.stat().st_size == 0"
InitCheck ==
    /\ init_pc = "idle"
    /\ init_pc' = IF budget_file.kind = "missing" \/ budget_file.kind = "empty"
                  THEN "open" ELSE "done"
    /\ UNCHANGED <<budget_file, besideConstructor>>

\* _create_default_budget, _save_budget: open(self.budget_file, 'w')
\* truncates the file
InitOpen ==
    /\ init_pc = "open"
    /\ budget_file' = File("empty", NoState)
    /\ init_pc' = "dump"
    /\ UNCHANGED besideConstructor

\* _create_default_budget, _save_budget: json.dump of the default budget
InitDump ==
    /\ init_pc = "dump"
    /\ budget_file' = Dumped(budget_file, default_budget)
    /\ init_pc' = "done"
    /\ UNCHANGED besideConstructor

NextConstruct == NextConcurrent \/ InitCheck \/ InitOpen \/ InitDump

\* two ledger calls and the construction of another MockBudgetAPI on the
\* ledger file
SpecConstruct == InitConcurrent /\ [][NextConstruct]_vars

(***************************************************************************)
(* ClaudeClient.batch_reason and the dispatch of what it returns           *)
(***************************************************************************)
\* most briefcases of one batch_reason call
MaxBriefcases == 2

\* what messages.create gives for a briefcase: the content blocks of the
\* response, or the exception it raises
Response(content, fault) == [content |-> content, fault |-> fault]

\* the responses a briefcase can meet: a call of recommend_action as the
\* schema asks, one without requires_human, one without confidence_score,
\* one that asks for approval, a response without a tool call, and a
\* failure of the API
Responses ==
    LET ok == ToolInput(ActionType.UPDATE_BUDGET, FALSE, 950)
    IN { Response(<< ContentBlock("tool_use", "recommend_action", input) >>, "none") :
             input \in { ok, Without(ok, "requires_human"),
                         Without(ok, "confidence_score"),
                         ToolInput(ActionType.FLAG_FOR_APPROVAL, TRUE, 700) } }
       \cup { Response(<<>>, "none"), Response(<<>>, "APIConnectionError") }

\* reasoning of the placeholder: f"Error processing: {str(e)}"
ErrorProcessing == "Error processing: Claude API call failed"

\* the placeholder batch_reason appends in its except clause
Placeholder ==
    [action_type |-> "flag_for_approval", requires_human |-> TRUE,
     confidence_score |-> 0, reasoning |-> ErrorProcessing, error |-> TRUE]

\* the body of the loop of batch_reason for one briefcase: what it appends
batch_reason_entry(response) ==
    LET r == reason_about_change(response.content, response.fault)
    IN IF r.raised # "" THEN << Placeholder >> ELSE << RecommendationDict(r) >>

\* the loop of batch_reason over the first n briefcases
RECURSIVE batch_reason_upto(_, _)
batch_reason_upto(responses, n) ==
    IF n = 0 THEN <<>>
    ELSE batch_reason_upto(responses, n - 1) \o batch_reason_entry(responses[n])

\* ClaudeClient.batch_reason: the list it returns
batch_reason(responses) == batch_reason_upto(responses, Len(responses))

\* the tool call of the response had no argument of that name, so that the
\* recommendation holds None under the key
HoldsNone(response, key) ==
    /\ reason_about_change(response.content, response.fault).raised = ""
    /\ key \notin DOMAIN response.content[RecommendBlock(response.content)].input

\* the recommendation as the tests of dispatch take it: None under
\* requires_human is falsy in "not requires_human", "or requires_human" and
\* "if requires_human", as False is
AsTested(response, recommendation) ==
    IF HoldsNone(response, "requires_human")
    THEN [recommendation EXCEPT !.requires_human = FALSE]
    ELSE recommendation

\* one dispatch of an entry of the list: the ledger before and after, the
\* DispatchResult and the ledger calls made
Dispatching(before, x) ==
    [before |-> before, after |-> x.file, result |-> x.result, calls |-> x.calls]

\* recommendations = client.batch_reason(briefcases, function_definition)
BatchReason ==
    /\ reasoner_op = "idle"
    /\ \E n \in 1..MaxBriefcases : \E responses \in [1..n -> Responses] :
         /\ briefcases' = responses
         /\ recommendations' = batch_reason(responses)
    /\ reasoner_op' = "returned"
    /\ UNCHANGED <<budget_file, dispatched, dispatcherVars, callVars, differVars,
                   resolverVars, gatewayVars, pipelineVars, clientVars>>

\* dispatcher.dispatch on the next entry of the list, for Wall_A on B47
DispatchRecommendation ==
    /\ reasoner_op = "returned"
    /\ Len(dispatched) < Len(recommendations)
    /\ \E extraction_confidence \in ExtractionScores :
         LET i == Len(dispatched) + 1
             x == dispatch(budget_file, min_confidence_threshold,
                           AsTested(briefcases[i], recommendations[i]),
                           "Wall_A", "B47", 1000, extraction_confidence, NoFault)
         IN /\ budget_file' = x.file
            /\ dispatched' = Append(dispatched, Dispatching(budget_file, x))
    /\ UNCHANGED <<briefcases, recommendations, reasoner_op, dispatcherVars,
                   callVars, differVars, resolverVars, gatewayVars, pipelineVars,
                   clientVars>>

NextReason == BatchReason \/ DispatchRecommendation

\* a batch_reason call and the dispatches of its list, under either threshold
SpecReason == Init /\ [][NextReason]_vars

(* Further properties of the pipeline run, the dispatcher and the          *)
(* blueprint comparison                                                    *)
(***************************************************************************)
\* the entries of 'results' that hold the dispatch result of the asset
DispatchResultsOf(asset_id) ==
    { j \in 1..Len(pipeline_results) :
          /\ pipeline_results[j].asset_id = asset_id
          /\ "dispatch_result" \in DOMAIN pipeline_results[j] }

\* C21: when the run is over, every modified and every added change of the
\* diff has gone through the dispatcher and has exactly one dispatch outcome,
\* also a modified asset the graph does not hold and every added asset
C21_EveryChangeIsDispatched ==
    pipeline_pc = "done" =>
        /\ \A i \in 1..Len(changes.modified) :
              Cardinality(DispatchResultsOf(changes.modified[i].asset_id)) = 1
        /\ \A i \in 1..Len(changes.added) :
              Cardinality(DispatchResultsOf(changes.added[i].id)) = 1

\* C23: the result of a dispatch has success true and requires_human false
\* (what the summary of the pipeline counts as auto-approved) if and only
\* if the dispatch updated spent
C23_ReportedCommitIffSpentUpdated ==
    Dispatched => ((LastOut.success /\ ~LastOut.requires_human) <=> SpentUpdated)

\* C29: the result of compare_blueprints is a partition: the ids of added,
\* removed and modified are pairwise disjoint, no id occurs twice within a
\* list, every listed id is an id of before or after, and the counts of the
\* summary are the lengths of the lists
C29_ResultIsPartition ==
    differ_op = "returned" =>
        /\ AddedIds \cap RemovedIds = {}
        /\ AddedIds \cap ModifiedIds = {}
        /\ RemovedIds \cap ModifiedIds = {}
        /\ Cardinality(AddedIds) = Len(changes.added)
        /\ Cardinality(RemovedIds) = Len(changes.removed)
        /\ Cardinality(ModifiedIds) = Len(changes.modified)
        /\ (AddedIds \cup RemovedIds \cup ModifiedIds)
               \subseteq (Ids(before_blueprint) \cup Ids(after_blueprint))
        /\ changes.summary.added_count = Len(changes.added)
        /\ changes.summary.removed_count = Len(changes.removed)
        /\ changes.summary.modified_count = Len(changes.modified)

\* the comparison of the tests: one asset added, Wall_A modified
C29_Witness ==
    /\ differ_op = "returned"
    /\ changes.summary.added_count = 1
    /\ changes.summary.modified_count = 1
    /\ changes.summary.removed_count = 0
    /\ AddedIds = {"HVAC_Unit_1"}
    /\ ModifiedIds = {"Wall_A"}

(***************************************************************************)
(* Properties of the single caller's ledger                                *)
(***************************************************************************)
\* the queue holds a change of the asset on the line
Queued(f, budget_code, asset_id) ==
    \E i \in 1..Len(get_approval_queue(f).pending) :
        /\ get_approval_queue(f).pending[i].budget_code = budget_code
        /\ get_approval_queue(f).pending[i].asset_id = asset_id

\* approve_pending_change or reject_pending_change returned True for a
\* change that was queued
Settled(c) ==
    /\ c.api \in {"approve_pending_change", "reject_pending_change"}
    /\ c.ret
    /\ Queued(c.before, c.args.code, c.args.asset_id)

\* C24: once approve_pending_change or reject_pending_change has returned
\* True for a queued change, get_approval_queue no longer returns that change
C24_SettledChangeLeavesQueue ==
    \A k \in 1..Len(ledger_hist) :
        Settled(ledger_hist[k])
            => ~Queued(ledger_hist[k].after, ledger_hist[k].args.code,
                       ledger_hist[k].args.asset_id)

\* s is the beginning of t
IsPrefix(s, t) ==
    /\ Len(s) <= Len(t)
    /\ \A i \in 1..Len(s) : s[i] = t[i]

RECURSIVE CommittedUpTo(_, _)
CommittedUpTo(hist, n) ==
    IF n = 0 THEN 0
    ELSE CommittedUpTo(hist, n - 1)
         + ( IF \/ /\ hist[n].api \in {"update_budget", "dispatch"}
                   /\ hist[n].args.code = "B47"
                   /\ hist[n].args.auto_approved
                   /\ hist[n].ret
                \/ hist[n].api = "dispatch_batch"
             THEN hist[n].args.delta ELSE 0 )

\* C30: a MockBudgetAPI constructed on a missing or empty file creates the
\* default budget (B47 50000/30000, B48 75000/45000, nothing pending), one
\* constructed on a file that holds a budget changes nothing, and so
\* get_line_item shows every update made through any earlier instance
C30_LedgerInitialisedOnce ==
    /\ \A k \in 1..Len(ledger_hist) :
          ledger_hist[k].api = "MockBudgetAPI" =>
              IF ledger_hist[k].before.kind \in {"missing", "empty"}
              THEN /\ ledger_hist[k].after.kind = "ok"
                   /\ Allocated(ledger_hist[k].after, "B47") = 50000
                   /\ Spent(ledger_hist[k].after, "B47") = 30000
                   /\ Allocated(ledger_hist[k].after, "B48") = 75000
                   /\ Spent(ledger_hist[k].after, "B48") = 45000
                   /\ Len(ledger_hist[k].after.state.line_items) = 2
                   /\ \A code \in LedgerCodes :
                         Pending(ledger_hist[k].after, code) = <<>>
              ELSE ledger_hist[k].after = ledger_hist[k].before
    /\ ledger_instances > 0 =>
          /\ ~get_line_item(budget_file, "B47").raised
          /\ ~get_line_item(budget_file, "B47").is_none
          /\ get_line_item(budget_file, "B47").item.spent
                = 30000 + CommittedUpTo(ledger_hist, Len(ledger_hist))

\* an update through the first instance, then a second instance, and
\* get_line_item through it returned the updated line
C30_Witness ==
    /\ ledger_instances = 2
    /\ Len(ledger_hist) = 4
    /\ ledger_hist[1].api = "MockBudgetAPI"
    /\ ledger_hist[2].api = "update_budget"
    /\ ledger_hist[2].args.auto_approved
    /\ ledger_hist[2].ret
    /\ ledger_hist[3].api = "MockBudgetAPI"
    /\ ledger_hist[4].api = "get_line_item"
    /\ ledger_hist[4].item.spent = 31000

(***************************************************************************)
(* Properties of concurrent ledger access                                  *)
(***************************************************************************)
\* the ledger holds the effect of the finished call of p, alone on its line
TookEffect(p) ==
    /\ ret[p]
    /\ budget_file.kind = "ok"
    /\ IF req[p].api = "update_budget"
       THEN /\ Spent(budget_file, req[p].code)
                  = Spent(File("ok", default_budget), req[p].code) + req[p].delta
            /\ Pending(budget_file, req[p].code) = <<>>
       ELSE /\ Spent(budget_file, req[p].code)
                  = Spent(File("ok", default_budget), req[p].code)
            /\ Len(Pending(budget_file, req[p].code)) = 1
            /\ Pending(budget_file, req[p].code)[1].asset_id = req[p].asset_id
            /\ Pending(budget_file, req[p].code)[1].delta = req[p].delta

\* C25: two concurrent ledger calls on different line codes, one on B47 and
\* one on B48, have both taken effect once both have finished, under every
\* interleaving
C25_DifferentLinesBothTakeEffect ==
    ( /\ \A p \in Procs : pc[p] = "done"
      /\ req[1].code = "B47"
      /\ req[2].code = "B48" )
    => \A p \in Procs : TookEffect(p)

\* C26: no ledger call that runs while another writes meets an empty or
\* partial file (in this model a finished call returned False only when
\* its load did), and a MockBudgetAPI constructed on the file meanwhile
\* never takes the file for empty and writes the default budget over it
C26_NoTornRead ==
    /\ \A p \in Procs : pc[p] = "done" => ret[p]
    /\ init_pc \notin {"open", "dump"}
    /\ init_pc = "done" /\ (\A p \in Procs : pc[p] = "done")
           => budget_file.kind = "ok"

(***************************************************************************)
(* Properties of batch_reason and of the dispatch of its recommendations   *)
(***************************************************************************)
\* reason_about_change raised for the briefcase
ReasoningFailed(response) ==
    reason_about_change(response.content, response.fault).raised # ""

\* the dispatch wrote nothing to the ledger
NoLedgerWrite(d) == d.after = d.before

\* C22: batch_reason returns one entry per briefcase, in order: the
\* recommendation of the briefcase's own response, or the placeholder when
\* reasoning failed for it; and the dispatch of the entry of a failed
\* briefcase ends as a failure: success is False and the ledger is not written
C22_FailedBriefcaseFailsAlone ==
    /\ reasoner_op = "returned" =>
          /\ Len(recommendations) = Len(briefcases)
          /\ \A i \in 1..Len(briefcases) :
                IF ReasoningFailed(briefcases[i])
                THEN "error" \in DOMAIN recommendations[i]
                ELSE /\ "error" \notin DOMAIN recommendations[i]
                     /\ recommendations[i].action_type
                           = briefcases[i].content[1].input.action_type
    /\ \A i \in 1..Len(dispatched) :
          ReasoningFailed(briefcases[i]) =>
              /\ ~dispatched[i].result.success
              /\ NoLedgerWrite(dispatched[i])

\* the dispatch called update_budget
CalledUpdate(d) ==
    \E j \in 1..Len(d.calls) : d.calls[j].api = "update_budget"

\* C28: the dispatch of a recommendation that lacks requires_human or
\* confidence_score never updates spent, whatever the threshold and the
\* extraction confidence
C28_IncompleteNeverCommits ==
    \A i \in 1..Len(dispatched) :
        ( \/ HoldsNone(briefcases[i], "requires_human")
          \/ HoldsNone(briefcases[i], "confidence_score") )
        => /\ ~CalledUpdate(dispatched[i])
           /\ Spent(dispatched[i].after, "B47") = Spent(dispatched[i].before, "B47")

====
